---- MODULE Spec2Model ----
(***************************************************************************)
(* Model of the decision-cycle orchestrator of the Sovereign Agent         *)
(* Treasury: TreasuryAgent (src/src/treasury-agent.js) with its            *)
(* DecisionEngine, CostManager and PerformanceTracker collaborators.       *)
(*                                                                         *)
(* An async method is split at the awaits on external I/O (wallet request, *)
(* model request, protocol executor); the code between two such awaits is  *)
(* one atomic action, as on the single JavaScript thread.                  *)
(*                                                                         *)
(* The agent instance receives at most one initialize() call and one       *)
(* startAutonomousLoop() call, as from main(), in either order and at any  *)
(* moment relative to each other; stop() may be called at any moment and   *)
(* any number of times.                                                    *)
(*                                                                         *)
(* Beside the orchestrator (Spec, SpecLive, and SpecSilent for a local     *)
(* model that may never answer) the module holds the run of main() alone   *)
(* (SpecRun), the same run with stop() noted in the traces (SpecStop), and *)
(* specifications of one component alone: parseDecisions (SpecParse),      *)
(* applyRiskFilters (SpecFilter), CostManager (SpecCost),                  *)
(* PerformanceTracker (SpecTracker), its risk metrics (SpecRisk),          *)
(* logDecisions (SpecHistory), the valuation routines (SpecValue), a       *)
(* DeFiStrategies executor (SpecExec), the live agent of the repository    *)
(* (SpecLiveAgent) and PredictionMarketStrategy.execute (SpecStrategy).    *)
(*                                                                         *)
(* Time is counted in minutes.  Money owed for compute is counted in       *)
(* units of 1/1200 USD, the cost of one minute at 0.05 USD per hour, so    *)
(* the 0.01 USD payment threshold is 12 units.                             *)
(***************************************************************************)
EXTENDS Integers, Sequences, FiniteSets, TLC

\* ------------------------------------------------------------------ bounds
MaxCycles  == 2    \* decision cycles started over one behaviour
MaxAdvance == 2    \* timer periods that elapse
StartTime  == 60   \* Date.now() at construction, minutes since the epoch
MaxTextLen == 3    \* length of the exhaustively enumerated response texts
MaxDecisions == 2  \* decisions in a well-formed response
MaxCostOps == 3    \* CostManager calls made on a CostManager alone
MaxRecords == 3    \* record calls made on a PerformanceTracker alone
MaxOverflow == 2   \* batches logged beyond the capacity of the history
MaxPattern == 3    \* period of the batches handed to logDecisions
MaxBalances == 2   \* balances in one wallet of a balance report
MaxSnapshots == 10 \* snapshots recorded one after the other on a tracker alone
MaxLiveCycles == 3 \* cycles of the live agent
MaxTickers == 6    \* tickers named in the signals handed to the strategy
MaxOverlap == 2    \* execute calls of the strategy in flight together

\* ------------------------------------------------------- program constants
loopInterval == 5          \* 5 * 60 * 1000 ms, in minutes
\* plausible slip: the preference for the local model is switched off
useLocalFirstOff == FALSE

useLocalFirst == TRUE      \* DecisionEngine.useLocalFirst

MaxTime == StartTime + MaxAdvance * loopInterval

minTransactionAmount == 1   \* CONFIG.minTransactionAmount, 0.01 SOL
maxPositions == 5           \* PredictionMarketStrategy.maxPositions

\* =========================================================================
\* Model responses as token sequences.
\*   "{" "}" "[" "]" ","   the JSON punctuation
\*   "k"                   the member name  "decisions":
\*   a field token         the members of one decision object
\*   "s"                   a JSON scalar
\*   "x"                   prose that contains no brace and is not JSON
\* Undefined stands for a missing / non-text response.
\* =========================================================================
Undefined == <<"undefined">>

FieldTokens == {"lend", "hold", "risky"}

\* JSON values: objects, arrays and scalars, all with the same record shape.
JObj(f, items) == [t |-> "obj", f |-> f, items |-> items]
JArr(items)    == [t |-> "arr", f |-> "", items |-> items]
JStr           == [t |-> "str", f |-> "", items |-> <<>>]

EmptyList == JArr(<<>>)

PFail(s)      == [ok |-> FALSE, val |-> JStr, rest |-> s]
POk(v, s)     == [ok |-> TRUE, val |-> v, rest |-> s]

RECURSIVE ParseValue(_)
RECURSIVE ParseElements(_, _)

\* elements of an array after "[" and a first value: ("," value)* "]"
ParseElements(acc, s) ==
    IF s = <<>> THEN PFail(s)
    ELSE IF Head(s) = "]" THEN POk(JArr(acc), Tail(s))
    ELSE IF Head(s) = "," THEN
        LET r == ParseValue(Tail(s))
        IN IF r.ok THEN ParseElements(Append(acc, r.val), r.rest) ELSE PFail(s)
    ELSE PFail(s)

\* one JSON value at the head of s
ParseValue(s) ==
    IF s = <<>> THEN PFail(s)
    ELSE IF Head(s) = "s" THEN POk(JStr, Tail(s))
    ELSE IF Head(s) = "[" THEN
        IF Len(s) >= 2 /\ s[2] = "]" THEN POk(EmptyList, Tail(Tail(s)))
        ELSE LET r == ParseValue(Tail(s))
             IN IF r.ok THEN ParseElements(<<r.val>>, r.rest) ELSE PFail(s)
    ELSE IF Head(s) = "{" THEN
        IF Len(s) >= 2 /\ s[2] = "}" THEN POk(JObj("", <<>>), Tail(Tail(s)))
        ELSE IF Len(s) >= 3 /\ s[2] \in FieldTokens /\ s[3] = "}"
            THEN POk(JObj(s[2], <<>>), SubSeq(s, 4, Len(s)))
        ELSE IF Len(s) >= 2 /\ s[2] = "k" THEN
            LET r == ParseValue(SubSeq(s, 3, Len(s)))
            IN IF r.ok /\ r.rest # <<>> /\ Head(r.rest) = "}"
               THEN POk(JObj("k", <<r.val>>), Tail(r.rest))
               ELSE PFail(s)
        ELSE PFail(s)
    ELSE PFail(s)

\* JSON.parse: the whole text must be one value; otherwise a SyntaxError
JSONParse(s) ==
    LET r == ParseValue(s)
    IN IF r.ok /\ r.rest = <<>> THEN [threw |-> FALSE, val |-> r.val]
       ELSE [threw |-> TRUE, val |-> JStr]

Positions(s, tok) == {i \in 1..Len(s) : s[i] = tok}

Min(S) == CHOOSE m \in S : \A n \in S : m <= n
Max(S) == CHOOSE m \in S : \A n \in S : m >= n

\* plausible slip: a lazy quantifier, the match ends at the first "}"
RegexEndLazy(s, from) == Min({j \in Positions(s, "}") : j > from})

\* /\{[\s\S]*\}/ is greedy: the match ends at the last "}" of the text
RegexEnd(s, from) == Max({j \in Positions(s, "}") : j > from})

\* aiResponse.match(/\{[\s\S]*\}/): the matched text, or <<>> for null
JsonMatch(s) ==
    IF Positions(s, "{") = {} THEN <<>>
    ELSE LET i == Min(Positions(s, "{"))
         IN IF {j \in Positions(s, "}") : j > i} = {} THEN <<>>
            ELSE SubSeq(s, i, RegexEnd(s, i))

\* parsed.decisions || []
DecisionsOf(parsed) ==
    IF parsed.t = "obj" /\ parsed.f = "k" THEN parsed.items[1] ELSE EmptyList

\* the try block of parseDecisions: its return value, or the throw
ParseTry(aiResponse) ==
    IF aiResponse = Undefined THEN [threw |-> TRUE, val |-> EmptyList]
    ELSE LET m == JsonMatch(aiResponse)
         IN IF m = <<>> THEN [threw |-> FALSE, val |-> EmptyList]
            ELSE LET p == JSONParse(m)
                 IN IF p.threw THEN [threw |-> TRUE, val |-> EmptyList]
                    ELSE [threw |-> FALSE, val |-> DecisionsOf(p.val)]

\* parseDecisions: the catch turns every throw into []
parseDecisions(aiResponse) ==
    LET r == ParseTry(aiResponse)
    IN IF r.threw THEN [threw |-> FALSE, val |-> EmptyList] ELSE r

\* =========================================================================
\* Decisions and the risk filter (DecisionEngine.applyRiskFilters)
\* =========================================================================
riskTolerance == 70        \* 0.7, in hundredths
HistoryCap    == 100       \* decisionHistory keeps the last 100 batches
RiskMinSnapshots == 10     \* calculateRiskMetrics needs ten snapshots
LiquidityFloor == 1000     \* 10 USD, in cents

\* the fields a decision object carries; amounts in thousandths
DecisionOf(tok) ==
    IF tok = "lend" THEN
        [action |-> "lend", riskLevel |-> "low", hasAmount |-> TRUE, amount |-> 1000]
    ELSE IF tok = "risky" THEN
        [action |-> "stake", riskLevel |-> "high", hasAmount |-> TRUE, amount |-> 1000]
    ELSE IF tok = "hold" THEN
        [action |-> "hold", riskLevel |-> "low", hasAmount |-> FALSE, amount |-> 0]
    ELSE IF tok = "zero" THEN
        [action |-> "swap", riskLevel |-> "low", hasAmount |-> TRUE, amount |-> 0]
    ELSE IF tok = "dust" THEN
        [action |-> "swap", riskLevel |-> "medium", hasAmount |-> TRUE, amount |-> 5]
    ELSE IF tok = "least" THEN
        [action |-> "rebalance", riskLevel |-> "medium", hasAmount |-> TRUE, amount |-> 10]
    ELSE
        [action |-> "undefined", riskLevel |-> "undefined", hasAmount |-> FALSE, amount |-> 0]

\* the property reads of the filter and of the dispatcher on a parsed element
FieldsOf(v) == DecisionOf(IF v.t = "obj" THEN v.f ELSE "")

\* plausible slip: the liquidity rule is left out
PassesRiskNoFloor(d, totalValue) ==
    /\ ~(d.riskLevel = "high" /\ riskTolerance < 80)
    /\ ~(d.hasAmount /\ d.amount # 0 /\ d.amount < 10)

PassesRisk(d, totalValue) ==
    /\ ~(d.riskLevel = "high" /\ riskTolerance < 80)
    /\ ~(d.hasAmount /\ d.amount # 0 /\ d.amount < 10)
    /\ ~(totalValue < LiquidityFloor)

\* plausible slip: the accepted decisions are collected in reverse
RECURSIVE FilterSeqReversed(_, _)
FilterSeqReversed(ds, totalValue) ==
    IF ds = <<>> THEN <<>>
    ELSE LET rest == FilterSeqReversed(Tail(ds), totalValue)
         IN IF PassesRisk(FieldsOf(Head(ds)), totalValue) THEN rest \o <<Head(ds)>> ELSE rest

RECURSIVE FilterSeq(_, _)
FilterSeq(ds, totalValue) ==
    IF ds = <<>> THEN <<>>
    ELSE LET rest == FilterSeq(Tail(ds), totalValue)
         IN IF PassesRisk(FieldsOf(Head(ds)), totalValue) THEN <<Head(ds)>> \o rest ELSE rest

applyRiskFilters(decisions, totalValue) == FilterSeq(decisions, totalValue)

KnownActions == {"lend", "stake", "swap", "rebalance"}

\* =========================================================================
\* Valuation (TreasuryAgent.calculateTotalValue), in cents
\* =========================================================================
\* prices[key] || 0, for a key that is a member of the table or is absent
Price(asset) ==
    IF asset = "sol" THEN 8850
    ELSE IF asset = "usdc" THEN 100
    ELSE IF asset = "eth" THEN 213326
    ELSE 0

\* String.prototype.toLowerCase on the symbols that occur in a report
toLowerCase(asset) ==
    IF asset = "SOL" THEN "sol"
    ELSE IF asset = "Usdc" THEN "usdc"
    ELSE IF asset = "Kamino" THEN "kamino"
    ELSE asset

\* the lower-case keys every object literal inherits from Object.prototype:
\* prices[key] is then a function or an object, `|| 0` does not apply and
\* amount * price is NaN
InheritedKeys == {"constructor", "__proto__"}

RECURSIVE Pow10(_)
Pow10(n) == IF n = 0 THEN 1 ELSE 10 * Pow10(n - 1)

RECURSIVE calculateTotalValue(_)
calculateTotalValue(balances) ==
    IF balances = <<>> THEN 0
    ELSE LET b == Head(balances)
         IN (b.rawValue * Price(toLowerCase(b.asset))) \div Pow10(b.decimals)
            + calculateTotalValue(Tail(balances))

\* the total is NaN as soon as one product is
IsNaNTotal(balances) ==
    \E i \in 1..Len(balances) : toLowerCase(balances[i].asset) \in InheritedKeys

\* A balance report: two lists of wallets, each of which may be missing, a
\* wallet with a list of balances, which may be missing too.
RECURSIVE WalletBalances(_)
WalletBalances(wallets) ==
    IF wallets = <<>> THEN <<>>
    ELSE (IF Head(wallets).hasBalances THEN Head(wallets).balances ELSE <<>>)
         \o WalletBalances(Tail(wallets))

\* [...(balances.solanaWallets || []), ...(balances.evmWallets || [])] and
\* the two nested loops: the balances in the order they are added up
AllBalances(report) ==
    WalletBalances((IF report.solanaWallets.present THEN report.solanaWallets.list ELSE <<>>)
                   \o (IF report.evmWallets.present THEN report.evmWallets.list ELSE <<>>))

\* TreasuryAgent.calculateTotalValue(report): NaN, or an amount in cents
TotalOf(report) ==
    [nan |-> IsNaNTotal(AllBalances(report)),
     cents |-> calculateTotalValue(AllBalances(report))]

\* the balances of one of the two wallet lists of a report, [] if missing
ListBalances(l) == WalletBalances(IF l.present THEN l.list ELSE <<>>)

\* AgentWallet.calculateTotalValue(report): the Solana wallets, then the
\* EVM wallets, each list skipped when it is missing
walletCalculateTotalValue(report) ==
    [nan |-> IsNaNTotal(ListBalances(report.solanaWallets))
                \/ IsNaNTotal(ListBalances(report.evmWallets)),
     cents |-> calculateTotalValue(ListBalances(report.solanaWallets))
               + calculateTotalValue(ListBalances(report.evmWallets))]

\* calculateValue(report) of the simple agent: the Solana wallets only
calculateValue(report) ==
    [nan |-> IsNaNTotal(ListBalances(report.solanaWallets)),
     cents |-> calculateTotalValue(ListBalances(report.solanaWallets))]

\* calculateValue(report) of the live agent: the Solana wallets only
calculateValueLive(report) ==
    [nan |-> IsNaNTotal(ListBalances(report.solanaWallets)),
     cents |-> calculateTotalValue(ListBalances(report.solanaWallets))]

\* balance reports the wallet service answers with
Reports == { << [asset |-> "sol", rawValue |-> 100, decimals |-> 2],
                [asset |-> "doge", rawValue |-> 7, decimals |-> 0] >> }

\* =========================================================================
\* CostManager
\* =========================================================================
PayThreshold == 12         \* 0.01 USD at 0.05 USD/h = 12 minutes of runtime
apiCallAI == 12            \* rates.apiCallAI, 0.01 USD
transactionFee == 6        \* rates.transactionFee, 0.005 USD

estimateCurrentCosts(c, t) ==
    LET currentPeriodCost == t - c.lastPayment
    IN [shouldPay |-> currentPeriodCost >= PayThreshold, amount |-> currentPeriodCost]

\* plausible slip: the payment is added up but its time is not kept
CostPayNoStamp(c, amount, t) ==
    [c EXCEPT !.computeTotal = @ + amount]

CostPay(c, amount, t) ==
    [c EXCEPT !.computeTotal = @ + amount, !.lastPayment = t]

\* =========================================================================
\* PerformanceTracker
\* =========================================================================
isAutonomousEvent(type) ==
    type \in {"decision_executed", "self_payment", "autonomous_rebalance",
              "risk_mitigation", "yield_optimization"}

CountType(evs, type) == Cardinality({i \in 1..Len(evs) : evs[i].type = type})

calculateAutonomyMetrics(p) ==
    [p EXCEPT !.selfSufficientCycles = CountType(p.events, "self_payment"),
              !.autonomousDecisions = CountType(p.events, "decision_executed")]

\* calculateRiskMetrics, the drawdown part: nothing below ten snapshots;
\* from ten on the largest fall from the running peak, in whole percent
RECURSIVE DrawdownFrom(_, _, _)
DrawdownFrom(values, peak, maxDD) ==
    IF values = <<>> THEN maxDD
    ELSE LET value == Head(values)
             pk == IF value > peak THEN value ELSE peak
             drawdown == IF pk > 0 THEN ((pk - value) * 100) \div pk ELSE 0
         IN DrawdownFrom(Tail(values), pk, IF drawdown > maxDD THEN drawdown ELSE maxDD)

calculateRiskMetrics(p) ==
    IF Len(p.snapshots) < RiskMinSnapshots THEN p
    ELSE [p EXCEPT !.maxDrawdown =
             DrawdownFrom([i \in 1..Len(p.snapshots) |-> p.snapshots[i].totalValue], 0, 0)]

\* updatePerformanceMetrics: of the total return nothing is kept here
updatePerformanceMetrics(p) ==
    IF Len(p.snapshots) < 2 THEN p
    ELSE calculateAutonomyMetrics(calculateRiskMetrics(p))

\* plausible slip: the snapshot is put in front of the ledger
recordSnapshotInFront(p, type, totalValue, t) ==
    LET q == [p EXCEPT !.snapshots =
                  <<[type |-> type, timestamp |-> t, totalValue |-> totalValue]>> \o @]
    IN IF Len(q.snapshots) > 1 THEN updatePerformanceMetrics(q) ELSE q

recordSnapshot(p, type, totalValue, t) ==
    LET q == [p EXCEPT !.snapshots =
                  Append(@, [type |-> type, timestamp |-> t, totalValue |-> totalValue])]
    IN IF Len(q.snapshots) > 1 THEN updatePerformanceMetrics(q) ELSE q

\* plausible slip: the event is put in front of the ledger
recordEventInFront(p, type, t) ==
    LET q == [p EXCEPT !.events = <<[type |-> type, timestamp |-> t]>> \o @]
    IN IF isAutonomousEvent(type)
       THEN [q EXCEPT !.autonomousDecisions = @ + 1] ELSE q

recordEvent(p, type, t) ==
    LET q == [p EXCEPT !.events = Append(@, [type |-> type, timestamp |-> t])]
    IN IF isAutonomousEvent(type)
       THEN [q EXCEPT !.autonomousDecisions = @ + 1] ELSE q

\* plausible slip: the cycle is counted but its snapshot is not taken
recordPerformanceCountOnly(p, totalValue, t) ==
    [p EXCEPT !.cycleCount = @ + 1]

\* TreasuryAgent.recordPerformance: getCycleCount() is ++cycleCount
recordPerformance(p, totalValue, t) ==
    recordSnapshot([p EXCEPT !.cycleCount = @ + 1], "cycle_complete", totalValue, t)

\* DecisionEngine.logDecisions; of a record only the batch is kept here, its
\* timestamp and portfolio value are read by no code but the prompt text
\* plausible slip: over capacity the newest batch is dropped
logDecisionsDropNewest(h, decisions, totalValue, t) ==
    LET g == Append(h, [decisions |-> decisions])
    IN IF Len(g) > HistoryCap THEN SubSeq(g, 1, Len(g) - 1) ELSE g

logDecisions(h, decisions, totalValue, t) ==
    LET g == Append(h, [decisions |-> decisions])
    IN IF Len(g) > HistoryCap THEN Tail(g) ELSE g

\* executeDecisions up to its next executor call: a decision whose action
\* is none of the four falls to the default branch (a warning) and is
\* then recorded like an executed one
RECURSIVE SkipUnknown(_, _, _)
SkipUnknown(p, list, t) ==
    IF list = <<>> \/ FieldsOf(Head(list)).action \in KnownActions
    THEN [perf |-> p, todo |-> list]
    ELSE SkipUnknown(recordEvent(p, "decision_executed", t), Tail(list), t)

\* =========================================================================
\* State
\* =========================================================================
VARIABLES
    isActive,            \* TreasuryAgent.isActive
    loopTimer,           \* TreasuryAgent.loopTimer
    timers,              \* the interval timers that are armed in the runtime
    due,                 \* armed timers whose period has elapsed
    now,                 \* Date.now()
    fallbackConfigured,  \* OpenRouterClient.isConfigured()
    initPc,              \* "running" while an initialize() call is suspended
    initCalled,          \* initialize() has been called
    initResult,          \* how the latest initialize() call ended
    probe,               \* the latest engine probe found a provider available
    loopPc,              \* per startAutonomousLoop call: where it stands
    cyc,                 \* per autonomousDecisionCycle call: its activation
    started,             \* autonomousDecisionCycle calls that passed the guard
    costs,               \* CostManager.costs.compute
    perf,                \* PerformanceTracker: snapshots, events, counters
    decisionHistory,     \* DecisionEngine.decisionHistory
    hist,                \* history of the calls made on the agent
    aiResponse,          \* parseDecisions alone: its argument
    parsed,              \* parseDecisions alone: its outcome
    filterArgs,          \* applyRiskFilters alone: its arguments
    filterRes,           \* applyRiskFilters alone: what it returned
    estimate,            \* CostManager alone: the latest estimate returned
    costHist,            \* CostManager alone: history of the calls made
    calls,               \* PerformanceTracker alone: record calls made
    logged,              \* logDecisions alone: every batch handed to it
    pattern,             \* logDecisions alone: the batches the engine produces
    valueArgs,           \* calculateTotalValue alone: the balance report
    valueRes,            \* calculateTotalValue alone: what it returned
    execArgs,            \* a DeFiStrategies executor alone: the call made
    execRes,             \* a DeFiStrategies executor alone: how the call ended
    live,                \* the live agent (LIVE VERSION): its loop and cycle
    strategy,            \* PredictionMarketStrategy: positions, calls in flight
    routines             \* the valuation routines side by side: their totals

\* the state of the components beside the treasury agent
otherVars == <<execArgs, execRes, live, strategy, routines>>

vars == <<isActive, loopTimer, timers, due, now, fallbackConfigured, initPc,
          initCalled, initResult, probe, loopPc, cyc, started, costs, perf,
          decisionHistory, hist, aiResponse, parsed, filterArgs, filterRes,
          estimate, costHist, calls, logged, pattern, valueArgs, valueRes, otherVars>>

\* the variables of the specifications of one component alone
unitVars == <<filterArgs, filterRes, estimate, costHist, calls, logged, pattern,
              valueArgs, valueRes, otherVars>>

\* the variables of the treasury agent and of its components
agentVars == <<isActive, loopTimer, timers, due, now, fallbackConfigured, initPc,
               initCalled, initResult, probe, loopPc, cyc, started, costs, perf,
               decisionHistory, hist, aiResponse, parsed, filterArgs, filterRes,
               estimate, costHist, calls, logged, pattern, valueArgs, valueRes>>

\* the startAutonomousLoop() calls; a timer is named after the call that
\* armed it
Loops  == {"main"}
Cycles == 1..MaxCycles

\* answer: which provider's response analyzeAndDecide worked on ("primary",
\* "fallback"), "nobody" when queryLlama threw, "none" before that
\* shouldPay: what the cost estimate of the activation reported
\* proposed: the decisions parsed from the response; accepted: the list
\* analyzeAndDecide returned; handed: the executor calls that have settled
IdleCycle == [pc |-> "idle", origin |-> "none", who |-> "none", afterStop |-> FALSE,
              uninit |-> FALSE, totalValue |-> 0, queried |-> <<>>,
              answer |-> "none", todo |-> <<>>, proposed |-> <<>>,
              accepted |-> <<>>, handed |-> <<>>, trace |-> <<>>,
              shouldPay |-> FALSE]

\* trace: what the activation has done so far, in the order it did it:
\* "assess" (assessCurrentState returned), "self_payment" (payComputeCosts
\* paid and recorded the event), "query" (a request to a model provider is
\* sent), "filter" (applyRiskFilters ran), "dispatch" (an executor is
\* called), "decision_executed" / "decision_failed" (the event is recorded),
\* "cycle_complete" (recordPerformance recorded the snapshot); "stop" marks
\* the first stop() call made while the activation was suspended
Did(rec, steps) == [rec EXCEPT !.trace = @ \o steps]

\* plausible slip: the compute bill is paid after the model was asked
UpToQueryPayLast(shouldPay, asks) ==
    <<"assess">> \o (IF asks THEN <<"query">> ELSE <<>>)
                \o (IF shouldPay THEN <<"self_payment">> ELSE <<>>)

\* autonomousDecisionCycle from the return of getBalances to the first
\* model request: assessCurrentState, payComputeCosts, analyzeAndDecide
UpToQuery(shouldPay, asks) ==
    <<"assess">> \o (IF shouldPay THEN <<"self_payment">> ELSE <<>>)
                \o (IF asks THEN <<"query">> ELSE <<>>)

\* stop() was called while the activation was suspended: the first such
\* call leaves the mark "stop" in the trace
Stopped(c) == \E i \in 1..Len(cyc[c].trace) : cyc[c].trace[i] = "stop"

InFlight(c) == cyc[c].pc \in {"assess", "primary", "fallback", "dispatch"}

\* no call is suspended
Quiet == initPc = "idle" /\ \A c \in Cycles : ~InFlight(c)

\* responses a model provider answers with inside a cycle
CycleResponses ==
    { <<"x">>,
      <<"x", "{", "k", "[", "{", "lend", "}", "]", "}", "x">> }

Pending == [done |-> FALSE, threw |-> FALSE, val |-> EmptyList]

AgentInit ==
    /\ isActive = FALSE
    /\ loopTimer = "undefined"
    /\ timers = {}
    /\ due = {}
    /\ now = StartTime
    /\ fallbackConfigured \in BOOLEAN
    /\ initPc = "idle"
    /\ initCalled = FALSE
    /\ initResult = "none"
    /\ probe = FALSE
    /\ loopPc = [l \in Loops |-> "idle"]
    /\ cyc = [c \in Cycles |-> IdleCycle]
    /\ started = 0
    /\ costs = [computeTotal |-> 0, lastPayment |-> 0, apiTotal |-> 0,
                 transactionsTotal |-> 0]
    /\ perf = [snapshots |-> <<>>, events |-> <<>>, cycleCount |-> 0,
               autonomousDecisions |-> 0, selfSufficientCycles |-> 0,
               maxDrawdown |-> 0]
    /\ decisionHistory = <<>>
    /\ hist = [stopCalled |-> FALSE, initOk |-> FALSE, tickStarted |-> 0,
               idleTick |-> FALSE, idleTickInit |-> FALSE, payments |-> 0,
               initValue |-> 0]

\* nothing has been asked of a component alone
NoFilter   == [calls |-> 0, accepted |-> <<>>, again |-> <<>>]
NoList     == [present |-> FALSE, list |-> <<>>]
NoReport   == [solanaWallets |-> NoList, evmWallets |-> NoList]
NoValue    == [calls |-> 0, first |-> [nan |-> FALSE, cents |-> 0],
               second |-> [nan |-> FALSE, cents |-> 0]]
NoExec     == [action |-> "none", hasParams |-> FALSE, target |-> "undefined",
               walletOk |-> FALSE]
NoResult   == [done |-> FALSE, threw |-> FALSE, success |-> FALSE]
NoLive     == [pc |-> "idle", running |-> FALSE, cycles |-> 0, failed |-> 0,
               solBalance |-> 0, action |-> "none", amount |-> 0, transfers |-> 0,
               outcome |-> "none"]
Tickers    == 1..MaxTickers
NoStrategy == [positions |-> {}, quoting |-> [t \in Tickers |-> 0],
               trading |-> [t \in Tickers |-> 0], last |-> "none"]
NoRoutines == [done |-> FALSE, agent |-> [nan |-> FALSE, cents |-> 0],
               wallet |-> [nan |-> FALSE, cents |-> 0],
               simple |-> [nan |-> FALSE, cents |-> 0],
               live |-> [nan |-> FALSE, cents |-> 0]]

ParseIdle   == aiResponse = Undefined /\ parsed = Pending
FilterIdle  == filterArgs = [decisions |-> <<>>, totalValue |-> 0] /\ filterRes = NoFilter
\* an estimate is kept with the time it was taken at and the time the
\* accrual it reports started: the last payment, or the agent's start;
\* last: the latest operation; before: the ledger before it
CostIdle ==
    /\ estimate = [taken |-> FALSE, at |-> 0, since |-> 0, afterPayment |-> FALSE,
                   shouldPay |-> FALSE, amount |-> 0]
    /\ costHist = [ops |-> 0, paid |-> FALSE, paidAt |-> 0, last |-> "none",
                   before |-> [computeTotal |-> 0, lastPayment |-> 0, apiTotal |-> 0,
                               transactionsTotal |-> 0]]
\* the record calls made, and the two ledgers before the latest of them
TrackerIdle ==
    calls = [snapshots |-> 0, events |-> 0,
             before |-> [snapshots |-> <<>>, events |-> <<>>]]
HistoryIdle == logged = <<>> /\ pattern = <<>>
ValueIdle   == valueArgs = NoReport /\ valueRes = NoValue
ExecIdle    == execArgs = NoExec /\ execRes = NoResult
OthersIdle  == ExecIdle /\ live = NoLive /\ strategy = NoStrategy /\ routines = NoRoutines

\* the treasury agent and its components as constructed, none of them called
AgentIdle ==
    /\ AgentInit
    /\ ParseIdle
    /\ FilterIdle
    /\ CostIdle
    /\ TrackerIdle
    /\ HistoryIdle
    /\ ValueIdle

Init ==
    /\ AgentInit
    /\ ParseIdle
    /\ FilterIdle
    /\ CostIdle
    /\ TrackerIdle
    /\ HistoryIdle
    /\ ValueIdle
    /\ OthersIdle

\* =========================================================================
\* TreasuryAgent.initialize
\* =========================================================================
Initialize ==
    /\ initPc = "idle"
    /\ ~initCalled
    /\ initCalled' = TRUE
    /\ initPc' = "running"
    /\ UNCHANGED <<isActive, loopTimer, timers, due, now, fallbackConfigured,
                   initResult, probe, loopPc, cyc, started, costs, perf,
                   decisionHistory, hist, aiResponse, parsed, unitVars>>

\* isActive after initialize() ends: set only on the success path (line 58)
ActiveAfterInit(ok, active) == IF ok THEN TRUE ELSE active

\* initialize() runs to its end.  In order: AgentWallet.initialize (a failed
\* getBalances is rethrown), DecisionEngine.initialize (the two probes; it
\* throws when neither provider is available), the strategies and the
\* tracker (no I/O), the initial getBalances, its valuation and snapshot,
\* and at last isActive = true.  Each throw is logged and rethrown.
InitializeDone(walletOk, local, router, balancesOk, report) ==
    LET localLlamaAvailable == local
        openRouterAvailable == fallbackConfigured /\ router
        fatal == ~localLlamaAvailable /\ ~openRouterAvailable
        ok == walletOk /\ ~fatal /\ balancesOk
    IN /\ initPc = "running"
       /\ initPc' = "idle"
       /\ probe' = IF walletOk THEN ~fatal ELSE probe
       /\ initResult' = IF ~walletOk THEN "wallet"
                        ELSE IF fatal THEN "models"
                        ELSE IF ~balancesOk THEN "balances"
                        ELSE "ok"
       /\ isActive' = ActiveAfterInit(ok, isActive)
       /\ perf' = IF ok
                  THEN recordSnapshot(perf, "initialization", calculateTotalValue(report), now)
                  ELSE perf
       /\ hist' = IF ok
                  THEN [hist EXCEPT !.initOk = TRUE,
                                    !.initValue = calculateTotalValue(report)]
                  ELSE hist
       /\ UNCHANGED <<loopTimer, timers, due, now, fallbackConfigured, initCalled,
                      loopPc, cyc, started, costs, decisionHistory, aiResponse, parsed, unitVars>>

\* =========================================================================
\* TreasuryAgent.autonomousDecisionCycle
\* =========================================================================

\* plausible slip: the activity guard is missing
CanStartCycleAlways(active) == TRUE

\* if (!this.isActive) return;
CanStartCycle(active) == active

\* plausible slip: no try/catch in the interval callback, so the rejection
\* of a failed cycle is unhandled and ends the process with all its timers
AfterTimerCycleUncaught(ts, ok) == IF ok THEN ts ELSE {}

\* the interval callback catches and logs: the timers stay as they are
AfterTimerCycle(ts, ok) == ts

\* plausible slip: a suspended activation goes on only while the agent is
\* active, so that stop() cuts it short
ResumesWhileActive(active) == active

\* isActive is read at the top of autonomousDecisionCycle and nowhere else:
\* when the request an activation waits for settles, the activation goes on
\* whatever the flag says
Resumes(active) == TRUE

\* activations are numbered in the order in which they pass the guard
FreeCycle == started + 1

\* a call passes the guard and suspends on wallet.getBalances()
BeginCycle(c, origin, who) ==
    cyc' = [cyc EXCEPT ![c] = [IdleCycle EXCEPT !.pc = "assess", !.origin = origin,
                                                !.who = who,
                                                !.afterStop = hist.stopCalled,
                                                !.uninit = ~hist.initOk]]

\* the call returns or throws to its caller:
\*  - startAutonomousLoop goes on to setInterval, or the exception leaves it;
\*  - the interval callback swallows the exception.
Return(c, rec, ok) ==
    LET fromLoop == rec.origin = "loop"
        ts == IF rec.origin = "timer" THEN AfterTimerCycle(timers, ok) ELSE timers
    IN /\ cyc' = [cyc EXCEPT ![c] = [rec EXCEPT !.pc = IF ok THEN "done" ELSE "failed",
                                                 !.todo = <<>>]]
       /\ loopPc' = IF fromLoop
                    THEN [loopPc EXCEPT ![rec.who] = IF ok THEN "installed" ELSE "threw"]
                    ELSE loopPc
       /\ timers' = IF fromLoop /\ ok THEN timers \cup {rec.who} ELSE ts
       /\ loopTimer' = IF fromLoop /\ ok THEN rec.who ELSE loopTimer
       /\ due' = IF rec.origin = "timer" THEN due \cap ts ELSE due

\* executeDecisions from the head of list up to the next executor call, then
\* recordPerformance and logHackathonDecision when the batch is exhausted
Proceed(c, rec, p, list) ==
    LET r == SkipUnknown(p, list, now)
        skipped == [i \in 1..(Len(list) - Len(r.todo)) |-> "decision_executed"]
    IN IF r.todo # <<>>
       THEN /\ cyc' = [cyc EXCEPT ![c] = [Did(rec, skipped \o <<"dispatch">>)
                                            EXCEPT !.pc = "dispatch", !.todo = r.todo]]
            /\ perf' = r.perf
            /\ UNCHANGED <<loopPc, timers, loopTimer, due>>
       ELSE /\ perf' = recordPerformance(r.perf, rec.totalValue, now)
            /\ Return(c, Did(rec, skipped \o <<"cycle_complete">>), TRUE)

\* plausible slip: the parsed decisions are executed, not the filtered ones
DispatchedUnfiltered(decisions, filteredDecisions) == decisions

\* what the cycle hands to executeDecisions: the list analyzeAndDecide
\* returned, which is the filtered one
Dispatched(decisions, filteredDecisions) == filteredDecisions

\* analyzeAndDecide after a provider answered: parse, filter, log.  A value
\* of "decisions" that is no array makes decisions.filter throw, which the
\* catch of analyzeAndDecide turns into [] before anything is logged.
Decide(c, rec, response) ==
    LET d == parseDecisions(response).val
    IN IF d.t = "arr"
       THEN LET filtered == applyRiskFilters(d.items, rec.totalValue)
            IN /\ decisionHistory' = logDecisions(decisionHistory, filtered, rec.totalValue, now)
               /\ Proceed(c, Did([rec EXCEPT !.proposed = d.items, !.accepted = filtered],
                                  <<"filter">>),
                          perf, Dispatched(d.items, filtered))
       ELSE /\ decisionHistory' = decisionHistory
            /\ Proceed(c, rec, perf, <<>>)

\* plausible slip: analyzeAndDecide lets the error of queryLlama through, and
\* the cycle fails with it
DecideNothingRethrown(c, rec, p) ==
    /\ decisionHistory' = decisionHistory
    /\ perf' = p
    /\ Return(c, [rec EXCEPT !.answer = "nobody"], FALSE)

\* queryLlama threw "All AI models failed": analyzeAndDecide returns []
DecideNothing(c, rec, p) ==
    /\ decisionHistory' = decisionHistory
    /\ Proceed(c, [rec EXCEPT !.answer = "nobody"], p, <<>>)

\* plausible slip: the bill is paid in every cycle
PaysAlways(shouldPay) == TRUE

\* TreasuryAgent.payComputeCosts: if (costEstimate.shouldPay) { pay; record }
Pays(shouldPay) == shouldPay

\* wallet.getBalances() settles.  On failure the cycle throws.  Otherwise
\* the state is assessed, the compute bill is paid when due, and
\* analyzeAndDecide issues its first model request.
AssessDone(c, ok, report) ==
    /\ cyc[c].pc = "assess"
    /\ Resumes(isActive)
    /\ IF ~ok
       THEN /\ Return(c, cyc[c], FALSE)
            /\ UNCHANGED <<costs, perf, decisionHistory, hist>>
       ELSE LET totalValue == calculateTotalValue(report)
                est == estimateCurrentCosts(costs, now)
                pays == Pays(est.shouldPay)
                p == IF pays THEN recordEvent(perf, "self_payment", now) ELSE perf
                asks == useLocalFirst \/ fallbackConfigured
                rec == Did([cyc[c] EXCEPT !.totalValue = totalValue,
                                          !.shouldPay = est.shouldPay],
                           UpToQuery(pays, asks))
            IN /\ costs' = IF pays THEN CostPay(costs, est.amount, now) ELSE costs
               /\ hist' = IF pays THEN [hist EXCEPT !.payments = @ + 1] ELSE hist
               /\ IF useLocalFirst
                  THEN /\ cyc' = [cyc EXCEPT ![c] = [rec EXCEPT !.pc = "primary",
                                                               !.queried = <<"primary">>]]
                       /\ perf' = p
                       /\ UNCHANGED <<decisionHistory, loopPc, timers, loopTimer, due>>
                  ELSE IF fallbackConfigured
                  THEN /\ cyc' = [cyc EXCEPT ![c] = [rec EXCEPT !.pc = "fallback",
                                                               !.queried = <<"fallback">>]]
                       /\ perf' = p
                       /\ UNCHANGED <<decisionHistory, loopPc, timers, loopTimer, due>>
                  ELSE DecideNothing(c, rec, p)
    /\ UNCHANGED <<isActive, now, fallbackConfigured, initPc, initCalled, initResult,
                   probe, started, aiResponse, parsed, unitVars>>

\* the request to the local model settles: a response with status ok is
\* returned as it is; anything else sends queryLlama to the fallback
PrimaryDone(c, ok, response) ==
    /\ cyc[c].pc = "primary"
    /\ Resumes(isActive)
    /\ IF ok
       THEN Decide(c, [cyc[c] EXCEPT !.answer = "primary"], response)
       ELSE IF fallbackConfigured
       THEN /\ cyc' = [cyc EXCEPT ![c].pc = "fallback",
                                  ![c].queried = Append(@, "fallback"),
                                  ![c].trace = Append(@, "query")]
            /\ UNCHANGED <<perf, decisionHistory, loopPc, timers, loopTimer, due>>
       ELSE DecideNothing(c, cyc[c], perf)
    /\ UNCHANGED <<isActive, now, fallbackConfigured, initPc, initCalled, initResult,
                   probe, started, costs, hist, aiResponse, parsed, unitVars>>

\* openRouter.queryModel settles: a truthy response is returned; null or a
\* throw ends queryLlama with "All AI models failed"
FallbackDone(c, ok, response) ==
    /\ cyc[c].pc = "fallback"
    /\ Resumes(isActive)
    /\ IF ok /\ response # Undefined
       THEN Decide(c, [cyc[c] EXCEPT !.answer = "fallback"], response)
       ELSE DecideNothing(c, cyc[c], perf)
    /\ UNCHANGED <<isActive, now, fallbackConfigured, initPc, initCalled, initResult,
                   probe, started, costs, hist, aiResponse, parsed, unitVars>>

\* plausible slip: a failed executor abandons the rest of the batch
RestOfBatchUnlessFailed(todo, ok) == IF ok THEN Tail(todo) ELSE <<>>

\* the for-loop of executeDecisions goes on with the decisions after the
\* one whose executor settled, whether it returned or threw
RestOfBatch(todo, ok) == Tail(todo)

\* the executor called for the head decision settles; either way one event
\* is recorded and the loop moves to the next decision
ExecutorDone(c, ok) ==
    /\ cyc[c].pc = "dispatch"
    /\ Resumes(isActive)
    /\ LET type == IF ok THEN "decision_executed" ELSE "decision_failed"
           rec == Did([cyc[c] EXCEPT !.handed = Append(@, [decision |-> Head(cyc[c].todo),
                                                              ok |-> ok])],
                      <<type>>)
       IN Proceed(c, rec, recordEvent(perf, type, now), RestOfBatch(cyc[c].todo, ok))
    /\ UNCHANGED <<isActive, now, fallbackConfigured, initPc, initCalled, initResult,
                   probe, started, costs, decisionHistory, hist, aiResponse, parsed, unitVars>>

\* =========================================================================
\* TreasuryAgent.startAutonomousLoop, the interval timer, stop
\* =========================================================================

\* startAutonomousLoop(): the immediate first run.  On an inactive agent the
\* run returns at once and setInterval follows; otherwise the call is
\* suspended until the first cycle returns or throws (see Return).
StartLoop(l) ==
    /\ loopPc[l] = "idle"
    /\ IF CanStartCycle(isActive)
       THEN /\ started < MaxCycles
            /\ BeginCycle(FreeCycle, "loop", l)
            /\ started' = started + 1
            /\ loopPc' = [loopPc EXCEPT ![l] = "first"]
            /\ UNCHANGED <<timers, loopTimer>>
       ELSE /\ loopPc' = [loopPc EXCEPT ![l] = "installed"]
            /\ timers' = timers \cup {l}
            /\ loopTimer' = l
            /\ UNCHANGED <<cyc, started>>
    /\ UNCHANGED <<isActive, due, now, fallbackConfigured, initPc, initCalled,
                   initResult, probe, costs, perf, decisionHistory, hist,
                   aiResponse, parsed, unitVars>>

\* one timer period elapses: every armed interval becomes due
Advance ==
    /\ due = {}
    /\ now < MaxTime
    /\ now' = now + loopInterval
    /\ due' = timers
    /\ UNCHANGED <<isActive, loopTimer, timers, fallbackConfigured, initPc, initCalled,
                   initResult, probe, loopPc, cyc, started, costs, perf,
                   decisionHistory, hist, aiResponse, parsed, unitVars>>

\* the interval callback runs: it calls autonomousDecisionCycle()
Tick(t) ==
    /\ t \in due
    /\ due' = due \ {t}
    /\ IF CanStartCycle(isActive)
       THEN /\ started < MaxCycles
            /\ BeginCycle(FreeCycle, "timer", t)
            /\ started' = started + 1
            /\ hist' = [hist EXCEPT !.tickStarted = @ + 1]
       ELSE /\ hist' = [hist EXCEPT
                          !.idleTick = @ \/ ~hist.stopCalled,
                          !.idleTickInit = @ \/ (~hist.stopCalled /\ hist.initOk)]
            /\ UNCHANGED <<cyc, started>>
    /\ UNCHANGED <<isActive, loopTimer, timers, now, fallbackConfigured, initPc,
                   initCalled, initResult, probe, loopPc, costs, perf,
                   decisionHistory, aiResponse, parsed, unitVars>>

\* stop(): isActive = false; clearInterval(this.loopTimer) if it is set
\* noted: whether the call is marked in the traces of the activations that
\* are suspended when it is made
StopCall(noted) ==
    /\ isActive' = FALSE
    /\ cyc' = [c \in Cycles |-> IF noted /\ InFlight(c) /\ ~Stopped(c)
                                THEN Did(cyc[c], <<"stop">>) ELSE cyc[c]]
    /\ timers' = timers \ {loopTimer}
    /\ due' = due \ {loopTimer}
    /\ hist' = [hist EXCEPT !.stopCalled = TRUE]
    /\ UNCHANGED <<loopTimer, now, fallbackConfigured, initPc, initCalled, initResult,
                   probe, loopPc, started, costs, perf, decisionHistory,
                   aiResponse, parsed, unitVars>>

Next ==
    \/ Initialize
    \/ \E walletOk \in BOOLEAN, local \in BOOLEAN, router \in BOOLEAN,
          balancesOk \in BOOLEAN, report \in Reports :
          InitializeDone(walletOk, local, router, balancesOk, report)
    \/ \E l \in Loops : StartLoop(l)
    \/ Advance
    \/ \E t \in Loops : Tick(t)
    \/ \E c \in Cycles, ok \in BOOLEAN, report \in Reports : AssessDone(c, ok, report)
    \/ \E c \in Cycles, ok \in BOOLEAN, r \in CycleResponses : PrimaryDone(c, ok, r)
    \/ \E c \in Cycles, ok \in BOOLEAN, r \in CycleResponses : FallbackDone(c, ok, r)
    \/ \E c \in Cycles, ok \in BOOLEAN : ExecutorDone(c, ok)
    \/ StopCall(FALSE)

Spec == Init /\ [][Next]_vars

\* the runtime fires an armed interval timer once its period has elapsed
SpecLive == Spec /\ WF_vars(Advance) /\ WF_vars(\E t \in Loops : Tick(t))

\* The run of main() with stop() called at any moment, the call noted in the
\* traces: initialize(), then startAutonomousLoop(), every cycle returning
\* before the next timer period elapses.
StopNext ==
    \/ Initialize
    \/ \E walletOk \in BOOLEAN, local \in BOOLEAN, router \in BOOLEAN,
          balancesOk \in BOOLEAN, report \in Reports :
          InitializeDone(walletOk, local, router, balancesOk, report)
    \/ initResult = "ok" /\ StartLoop("main")
    \/ Quiet /\ Advance
    \/ \E t \in Loops : Tick(t)
    \/ \E c \in Cycles, ok \in BOOLEAN, report \in Reports : AssessDone(c, ok, report)
    \/ \E c \in Cycles, ok \in BOOLEAN, r \in CycleResponses : PrimaryDone(c, ok, r)
    \/ \E c \in Cycles, ok \in BOOLEAN, r \in CycleResponses : FallbackDone(c, ok, r)
    \/ \E c \in Cycles, ok \in BOOLEAN : ExecutorDone(c, ok)
    \/ StopCall(TRUE)

SpecStop == Init /\ [][StopNext]_vars

\* A local model that may stay silent: the runtime fires the timers, and the
\* wallet, the fallback provider and the executors settle every request,
\* but nothing makes the request to the local model settle (fetch is called
\* without a timeout or an abort signal).
SpecSilent ==
    /\ SpecLive
    /\ WF_vars(\E c \in Cycles, ok \in BOOLEAN, report \in Reports : AssessDone(c, ok, report))
    /\ WF_vars(\E c \in Cycles, ok \in BOOLEAN, r \in CycleResponses : FallbackDone(c, ok, r))
    /\ WF_vars(\E c \in Cycles, ok \in BOOLEAN : ExecutorDone(c, ok))

\* =========================================================================
\* The run of main(): initialize(), then startAutonomousLoop(), nobody calls
\* stop(), and every cycle has returned before the next timer period
\* elapses.  The wallet and the model providers answer from larger sets.
\* =========================================================================
RunReports ==
    Reports \cup { << [asset |-> "usdc", rawValue |-> 500, decimals |-> 2] >> }

RunResponses ==
    { <<"x">>,
      <<"{", "k", "[", "{", "hold", "}", ",", "{", "lend", "}", "]", "}">>,
      <<"{", "k", "[", "{", "lend", "}", ",", "{", "lend", "}", "]", "}">>,
      <<"{", "k", "[", "{", "risky", "}", ",", "{", "lend", "}", "]", "}">>,
      <<"{", "k", "s", "}">> }

RunNext ==
    \/ Initialize
    \/ \E walletOk \in BOOLEAN, local \in BOOLEAN, router \in BOOLEAN,
          balancesOk \in BOOLEAN, report \in RunReports :
          InitializeDone(walletOk, local, router, balancesOk, report)
    \/ initResult = "ok" /\ StartLoop("main")
    \/ Quiet /\ Advance
    \/ \E t \in Loops : Tick(t)
    \/ \E c \in Cycles, ok \in BOOLEAN, report \in RunReports : AssessDone(c, ok, report)
    \/ \E c \in Cycles, ok \in BOOLEAN, r \in RunResponses : PrimaryDone(c, ok, r)
    \/ \E c \in Cycles, ok \in BOOLEAN, r \in RunResponses : FallbackDone(c, ok, r)
    \/ \E c \in Cycles, ok \in BOOLEAN : ExecutorDone(c, ok)

SpecRun == Init /\ [][RunNext]_vars

\* =========================================================================
\* parseDecisions alone, over a set of response texts
\* =========================================================================
RECURSIVE SeqsUpTo(_, _)
SeqsUpTo(S, n) ==
    IF n = 0 THEN {<<>>}
    ELSE LET shorter == SeqsUpTo(S, n - 1)
         IN shorter \cup {Append(q, e) : q \in shorter, e \in S}

DecisionLists == SeqsUpTo(FieldTokens, MaxDecisions)

\* the text of a list of decision objects, separated by commas
RECURSIVE ElementsText(_)
ElementsText(ds) ==
    IF ds = <<>> THEN <<>>
    ELSE IF Len(ds) = 1 THEN <<"{", Head(ds), "}">>
    ELSE <<"{", Head(ds), "}", ",">> \o ElementsText(Tail(ds))

\* the text {"decisions":[ ... ]} for a list of decisions
ObjectText(ds) == <<"{", "k", "[">> \o ElementsText(ds) \o <<"]", "}">>

\* the values those decision objects parse to
ObjectsOf(ds) == [i \in 1..Len(ds) |-> JObj(ds[i], <<>>)]

\* texts whose braces enclose something JSON.parse rejects
BrokenTexts ==
    { <<"{", "k", "[", "{", "lend", "}", "}">>,
      <<"{", "k", "[", "{", "lend", "}", ",", "]", "}">>,
      <<"{", "x", "}">>,
      <<"{", "k", "[", "{", "lend", "}", "{", "hold", "}", "]", "}">>,
      <<"{", "k", "}">> }

Margins == {<<>>, <<"x">>, <<"{">>, <<"}">>, <<"[", "s", "]">>}

BraceFree(s) == Positions(s, "{") = {} /\ Positions(s, "}") = {}

ParseInit ==
    /\ AgentInit
    /\ aiResponse \in
          {Undefined}
          \cup SeqsUpTo({"{", "}", "[", "]", ",", "k", "s", "x"} \cup FieldTokens,
                        MaxTextLen)
          \cup BrokenTexts
          \cup {pre \o ObjectText(ds) \o post : pre \in Margins, ds \in DecisionLists,
                                               post \in Margins}
    /\ parsed = Pending
    /\ FilterIdle
    /\ CostIdle
    /\ TrackerIdle
    /\ HistoryIdle
    /\ ValueIdle
    /\ OthersIdle

\* one call parseDecisions(aiResponse)
ParseCall ==
    /\ ~parsed.done
    /\ parsed' = [done |-> TRUE, threw |-> parseDecisions(aiResponse).threw,
                  val |-> parseDecisions(aiResponse).val]
    /\ UNCHANGED <<aiResponse, isActive, loopTimer, timers, due, now,
                   fallbackConfigured, initPc, initCalled, initResult, probe, loopPc, cyc,
                   started, costs, perf, decisionHistory, hist, unitVars>>

SpecParse == ParseInit /\ [][ParseCall]_vars

\* =========================================================================
\* applyRiskFilters alone, over lists of decisions and portfolio values
\* =========================================================================
\* the decision objects a list is made of; portfolio values around the
\* liquidity floor, in cents
FilterInit ==
    /\ AgentInit
    /\ ParseIdle
    /\ filterArgs \in
          [decisions : {ObjectsOf(ds) :
                          ds \in SeqsUpTo(FieldTokens \cup {"zero", "dust", "least"},
                                          MaxDecisions)},
           totalValue : {0, LiquidityFloor - 1, LiquidityFloor,
                         calculateTotalValue(<< [asset |-> "sol", rawValue |-> 100,
                                                 decimals |-> 2] >>)}]
    /\ filterRes = NoFilter
    /\ CostIdle
    /\ TrackerIdle
    /\ HistoryIdle
    /\ ValueIdle
    /\ OthersIdle

\* applyRiskFilters(decisions, currentState)
FilterCall ==
    /\ filterRes.calls = 0
    /\ filterRes' = [filterRes EXCEPT
                       !.calls = 1,
                       !.accepted = applyRiskFilters(filterArgs.decisions,
                                                     filterArgs.totalValue)]
    /\ UNCHANGED <<isActive, loopTimer, timers, due, now, fallbackConfigured, initPc,
                   initCalled, initResult, probe, loopPc, cyc, started, costs, perf,
                   decisionHistory, hist, aiResponse, parsed, filterArgs, estimate,
                   costHist, calls, logged, pattern, valueArgs, valueRes, otherVars>>

\* applyRiskFilters(accepted, currentState): the returned list filtered again
FilterAgain ==
    /\ filterRes.calls = 1
    /\ filterRes' = [filterRes EXCEPT
                       !.calls = 2,
                       !.again = applyRiskFilters(filterRes.accepted,
                                                  filterArgs.totalValue)]
    /\ UNCHANGED <<isActive, loopTimer, timers, due, now, fallbackConfigured, initPc,
                   initCalled, initResult, probe, loopPc, cyc, started, costs, perf,
                   decisionHistory, hist, aiResponse, parsed, filterArgs, estimate,
                   costHist, calls, logged, pattern, valueArgs, valueRes, otherVars>>

SpecFilter == FilterInit /\ [][FilterCall \/ FilterAgain]_vars

\* =========================================================================
\* CostManager alone: any sequence of its operations as time passes
\* =========================================================================

\* the cost arguments handed to recordAPICost and recordTransactionCost
CostArgs == {-transactionFee, transactionFee, apiCallAI}

CostInit ==
    /\ AgentInit
    /\ ParseIdle
    /\ FilterIdle
    /\ CostIdle
    /\ TrackerIdle
    /\ HistoryIdle
    /\ ValueIdle
    /\ OthersIdle

CostOp(op) ==
    /\ costHist.ops < MaxCostOps
    /\ costHist' = [costHist EXCEPT
                      !.ops = @ + 1, !.last = op, !.before = costs,
                      !.paid = @ \/ op = "pay",
                      !.paidAt = IF op = "pay" THEN now ELSE @]

CostTick(d) ==
    /\ now + d <= StartTime + PayThreshold + loopInterval
    /\ now' = now + d
    /\ UNCHANGED <<isActive, loopTimer, timers, due, fallbackConfigured, initPc,
                   initCalled, initResult, probe, loopPc, cyc, started, costs, perf,
                   decisionHistory, hist, aiResponse, parsed, filterArgs, filterRes,
                   estimate, costHist, calls, logged, pattern, valueArgs, valueRes, otherVars>>

\* CostManager.estimateCurrentCosts()
CostEstimate ==
    /\ CostOp("estimate")
    /\ estimate' = [taken |-> TRUE, at |-> now,
                    since |-> IF costHist.paid THEN costHist.paidAt ELSE StartTime,
                    afterPayment |-> costHist.paid,
                    shouldPay |-> estimateCurrentCosts(costs, now).shouldPay,
                    amount |-> estimateCurrentCosts(costs, now).amount]
    /\ UNCHANGED <<isActive, loopTimer, timers, due, now, fallbackConfigured, initPc,
                   initCalled, initResult, probe, loopPc, cyc, started, costs, perf,
                   decisionHistory, hist, aiResponse, parsed, filterArgs, filterRes,
                   calls, logged, pattern, valueArgs, valueRes, otherVars>>

\* CostManager.payComputeCosts(amount)
CostPayCall(amount) ==
    /\ CostOp("pay")
    /\ costs' = CostPay(costs, amount, now)
    /\ UNCHANGED <<isActive, loopTimer, timers, due, now, fallbackConfigured, initPc,
                   initCalled, initResult, probe, loopPc, cyc, started, perf,
                   decisionHistory, hist, aiResponse, parsed, filterArgs, filterRes,
                   estimate, calls, logged, pattern, valueArgs, valueRes, otherVars>>

\* CostManager.recordAPICost(endpoint, cost)
recordAPICost(cost) ==
    /\ CostOp("api")
    /\ costs' = [costs EXCEPT !.apiTotal = @ + cost]
    /\ UNCHANGED <<isActive, loopTimer, timers, due, now, fallbackConfigured, initPc,
                   initCalled, initResult, probe, loopPc, cyc, started, perf,
                   decisionHistory, hist, aiResponse, parsed, filterArgs, filterRes,
                   estimate, calls, logged, pattern, valueArgs, valueRes, otherVars>>

\* CostManager.recordTransactionCost(txHash, cost)
recordTransactionCost(cost) ==
    /\ CostOp("transaction")
    /\ costs' = [costs EXCEPT !.transactionsTotal = @ + cost]
    /\ UNCHANGED <<isActive, loopTimer, timers, due, now, fallbackConfigured, initPc,
                   initCalled, initResult, probe, loopPc, cyc, started, perf,
                   decisionHistory, hist, aiResponse, parsed, filterArgs, filterRes,
                   estimate, calls, logged, pattern, valueArgs, valueRes, otherVars>>

\* the time that passes between two calls is counted in minutes; the
\* amounts handed to payComputeCosts include the amount of the estimate
\* just taken, which is what the orchestrator hands it
CostNext ==
    \/ \E d \in {PayThreshold - 2 * loopInterval, loopInterval} : CostTick(d)
    \/ CostEstimate
    \/ \E amount \in {-PayThreshold, PayThreshold}
                       \cup (IF estimate.taken THEN {estimate.amount} ELSE {}) :
          CostPayCall(amount)
    \/ \E cost \in CostArgs : recordAPICost(cost)
    \/ \E cost \in CostArgs : recordTransactionCost(cost)

SpecCost == CostInit /\ [][CostNext]_vars

\* =========================================================================
\* PerformanceTracker alone: any sequence of record calls as time passes
\* =========================================================================
SnapshotValues == {calculateTotalValue(r) : r \in RunReports}

TrackerInit ==
    /\ AgentInit
    /\ ParseIdle
    /\ FilterIdle
    /\ CostIdle
    /\ TrackerIdle
    /\ HistoryIdle
    /\ ValueIdle
    /\ OthersIdle

TrackerCall(kind) ==
    /\ calls.snapshots + calls.events < MaxRecords
    /\ calls' = [snapshots |-> calls.snapshots + (IF kind = "snapshot" THEN 1 ELSE 0),
                 events |-> calls.events + (IF kind = "event" THEN 1 ELSE 0),
                 before |-> [snapshots |-> perf.snapshots, events |-> perf.events]]

\* PerformanceTracker.recordSnapshot(type, {totalValue})
TrackerSnapshot(type, totalValue) ==
    /\ TrackerCall("snapshot")
    /\ perf' = recordSnapshot(perf, type, totalValue, now)
    /\ UNCHANGED <<isActive, loopTimer, timers, due, now, fallbackConfigured, initPc,
                   initCalled, initResult, probe, loopPc, cyc, started, costs,
                   decisionHistory, hist, aiResponse, parsed, filterArgs, filterRes,
                   estimate, costHist, logged, pattern, valueArgs, valueRes, otherVars>>

\* PerformanceTracker.recordEvent(type, data)
TrackerEvent(type) ==
    /\ TrackerCall("event")
    /\ perf' = recordEvent(perf, type, now)
    /\ UNCHANGED <<isActive, loopTimer, timers, due, now, fallbackConfigured, initPc,
                   initCalled, initResult, probe, loopPc, cyc, started, costs,
                   decisionHistory, hist, aiResponse, parsed, filterArgs, filterRes,
                   estimate, costHist, logged, pattern, valueArgs, valueRes, otherVars>>

TrackerNext ==
    \/ Advance
    \/ \E type \in {"initialization", "cycle_complete"}, v \in SnapshotValues :
          TrackerSnapshot(type, v)
    \/ \E type \in {"self_payment", "decision_executed", "decision_failed"} : TrackerEvent(type)

SpecTracker == TrackerInit /\ [][TrackerNext]_vars

\* PerformanceTracker alone, one snapshot after the other
RiskSnapshot(totalValue) ==
    /\ Len(perf.snapshots) < MaxSnapshots
    /\ perf' = recordSnapshot(perf, "cycle_complete", totalValue, now)
    /\ UNCHANGED <<isActive, loopTimer, timers, due, now, fallbackConfigured, initPc,
                   initCalled, initResult, probe, loopPc, cyc, started, costs,
                   decisionHistory, hist, aiResponse, parsed, unitVars>>

SpecRisk == TrackerInit /\ [][\E v \in SnapshotValues \cup {0} : RiskSnapshot(v)]_vars

\* =========================================================================
\* DecisionEngine.logDecisions alone, called past the capacity of the
\* history with batches that repeat with a period
\* =========================================================================

HistoryInit ==
    /\ AgentInit
    /\ ParseIdle
    /\ FilterIdle
    /\ CostIdle
    /\ TrackerIdle
    /\ logged = <<>>
    /\ pattern \in SeqsUpTo({<<>>, ObjectsOf(<<"lend">>), ObjectsOf(<<"hold", "lend">>)},
                             MaxPattern) \ {<<>>}
    /\ ValueIdle
    /\ OthersIdle

\* the batch of the k-th call
BatchOf(k) == pattern[((k - 1) % Len(pattern)) + 1]

\* logDecisions(filteredDecisions, currentState)
LogCall ==
    /\ Len(logged) < HistoryCap + MaxOverflow
    /\ decisionHistory' = logDecisions(decisionHistory, BatchOf(Len(logged) + 1), 0, now)
    /\ logged' = Append(logged, [decisions |-> BatchOf(Len(logged) + 1)])
    /\ UNCHANGED <<isActive, loopTimer, timers, due, now, fallbackConfigured, initPc,
                   initCalled, initResult, probe, loopPc, cyc, started, costs, perf,
                   hist, aiResponse, parsed, filterArgs, filterRes, estimate,
                   costHist, calls, pattern, valueArgs, valueRes, otherVars>>

SpecHistory == HistoryInit /\ [][LogCall]_vars

\* =========================================================================
\* TreasuryAgent.calculateTotalValue alone, over balance reports
\* =========================================================================

WalletLists ==
    { NoList, [present |-> TRUE, list |-> <<>>] }
    \cup { [present |-> TRUE, list |-> <<w>>] :
             w \in { [hasBalances |-> FALSE, balances |-> <<>>] }
                   \cup { [hasBalances |-> TRUE, balances |-> bs] :
                            bs \in SeqsUpTo(
                              { [asset |-> "sol", rawValue |-> 100, decimals |-> 2],
                                [asset |-> "SOL", rawValue |-> 250, decimals |-> 2],
                                [asset |-> "usdc", rawValue |-> 500, decimals |-> 2],
                                [asset |-> "eth", rawValue |-> 1, decimals |-> 0],
                                [asset |-> "doge", rawValue |-> 7, decimals |-> 0],
                                [asset |-> "constructor", rawValue |-> 100,
                                 decimals |-> 2] },
                              MaxBalances) } }

ValueInit ==
    /\ AgentInit
    /\ ParseIdle
    /\ FilterIdle
    /\ CostIdle
    /\ TrackerIdle
    /\ HistoryIdle
    /\ valueArgs \in [solanaWallets : WalletLists, evmWallets : WalletLists]
    /\ valueRes = NoValue
    /\ OthersIdle

\* calculateTotalValue(balances)
ValueCall ==
    /\ valueRes.calls = 0
    /\ valueRes' = [valueRes EXCEPT !.calls = 1, !.first = TotalOf(valueArgs)]
    /\ UNCHANGED <<isActive, loopTimer, timers, due, now, fallbackConfigured, initPc,
                   initCalled, initResult, probe, loopPc, cyc, started, costs, perf,
                   decisionHistory, hist, aiResponse, parsed, filterArgs, filterRes,
                   estimate, costHist, calls, logged, pattern, valueArgs, otherVars>>

\* calculateTotalValue(balances) once more on the same report
ValueAgain ==
    /\ valueRes.calls = 1
    /\ valueRes' = [valueRes EXCEPT !.calls = 2, !.second = TotalOf(valueArgs)]
    /\ UNCHANGED <<isActive, loopTimer, timers, due, now, fallbackConfigured, initPc,
                   initCalled, initResult, probe, loopPc, cyc, started, costs, perf,
                   decisionHistory, hist, aiResponse, parsed, filterArgs, filterRes,
                   estimate, costHist, calls, logged, pattern, valueArgs, otherVars>>

\* the four valuation routines of the repository on the same report
ValueCompare ==
    /\ ~routines.done
    /\ routines' = [done |-> TRUE,
                    agent |-> TotalOf(valueArgs),
                    wallet |-> walletCalculateTotalValue(valueArgs),
                    simple |-> calculateValue(valueArgs),
                    live |-> calculateValueLive(valueArgs)]
    /\ UNCHANGED <<agentVars, execArgs, execRes, live, strategy>>

SpecValue == ValueInit /\ [][ValueCall \/ ValueAgain \/ ValueCompare]_vars

\* =========================================================================
\* DeFiStrategies: one executor call alone
\* =========================================================================
Returned(success) == [done |-> TRUE, threw |-> FALSE, success |-> success]
Thrown == [done |-> TRUE, threw |-> TRUE, success |-> FALSE]

\* lendAssets / stakeAssets(params): the first log line reads params.amount,
\* outside the try; an unknown protocol throws, the catch logs and rethrows
WithProtocol(protocols, a) ==
    IF ~a.hasParams THEN Thrown
    ELSE IF a.target = "undefined" \/ toLowerCase(a.target) \notin protocols THEN Thrown
    ELSE Returned(TRUE)

lendAssets(a) == WithProtocol({"kamino", "marginfi"}, a)
stakeAssets(a) == WithProtocol({"marinade", "jito"}, a)

\* swapAssets(params): the simulated operation cannot fail
swapAssets(a) == IF ~a.hasParams THEN Thrown ELSE Returned(TRUE)

\* rebalancePortfolio(params): a failed wallet.getBalances() is rethrown
rebalancePortfolio(a) ==
    IF ~a.hasParams THEN Thrown
    ELSE IF ~a.walletOk THEN Thrown
    ELSE Returned(TRUE)

ExecInit ==
    /\ AgentInit
    /\ ParseIdle
    /\ FilterIdle
    /\ CostIdle
    /\ TrackerIdle
    /\ HistoryIdle
    /\ valueArgs = NoReport /\ valueRes = NoValue
    /\ execArgs \in [action : KnownActions, hasParams : BOOLEAN,
                     target : {"kamino", "Kamino", "marinade", "aave", "undefined"},
                     walletOk : BOOLEAN]
    /\ execRes = NoResult
    /\ live = NoLive
    /\ strategy = NoStrategy
    /\ routines = NoRoutines

\* the executor executeDecisions calls for the action
ExecCall ==
    /\ ~execRes.done
    /\ execRes' = IF execArgs.action = "lend" THEN lendAssets(execArgs)
                  ELSE IF execArgs.action = "stake" THEN stakeAssets(execArgs)
                  ELSE IF execArgs.action = "swap" THEN swapAssets(execArgs)
                  ELSE rebalancePortfolio(execArgs)
    /\ UNCHANGED <<isActive, loopTimer, timers, due, now, fallbackConfigured, initPc,
                   initCalled, initResult, probe, loopPc, cyc, started, costs, perf,
                   decisionHistory, hist, aiResponse, parsed, filterArgs, filterRes,
                   estimate, costHist, calls, logged, pattern, valueArgs, valueRes,
                   execArgs, live, strategy, routines>>

SpecExec == ExecInit /\ [][ExecCall]_vars

\* =========================================================================
\* The live agent (LIVE VERSION): main() and autonomousCycle().  Amounts of
\* SOL are counted in hundredths.  A cycle keeps its balance and decision
\* in local variables, so the cycles are followed one after the other.
\* =========================================================================
executeTransactions == TRUE    \* CONFIG.executeTransactions

\* the balances of the first Solana wallet of a report
LiveBalances ==
    { <<>>,
      << [chain |-> "solana-devnet", asset |-> "sol", amount |-> 2] >>,
      << [chain |-> "solana-devnet", asset |-> "sol", amount |-> 0] >>,
      << [chain |-> "solana", asset |-> "sol", amount |-> 5],
         [chain |-> "solana-devnet", asset |-> "sol", amount |-> 1] >>,
      << [chain |-> "solana-devnet", asset |-> "usdc", amount |-> 5] >>,
      << [chain |-> "solana-devnet", asset |-> "SOL", amount |-> 5] >> }

\* the loop over devnetBalances: the amount of the last devnet "sol" entry
RECURSIVE solBalanceOf(_, _)
solBalanceOf(balances, solBalance) ==
    IF balances = <<>> THEN solBalance
    ELSE LET bal == Head(balances)
         IN solBalanceOf(Tail(balances),
                         IF bal.chain = "solana-devnet" /\ bal.asset = "sol"
                         THEN bal.amount ELSE solBalance)

\* what queryLlama resolves with: no text at all, text without an object,
\* text with a malformed object, or text with a decision object
LiveResponses ==
    { [kind |-> k, action |-> "none", amount |-> [nan |-> TRUE, v |-> 0]] :
        k \in {"undefined", "prose", "malformed"} }
    \cup { [kind |-> "object", action |-> a, amount |-> m] :
             a \in {"transfer_sol", "hold", "swap"},
             m \in { [nan |-> TRUE, v |-> 0] }
                   \cup { [nan |-> FALSE, v |-> v] : v \in -1..3 } }

\* parseFloat(decision.amount) || 0.01
parseAmount(m) == IF m.nan \/ m.v = 0 THEN 1 ELSE m.v

\* plausible slip: the amount is compared with the balance only
SafeAmountNoFloor(amount, solBalance) == amount <= solBalance

\* amount >= CONFIG.minTransactionAmount && amount <= solBalance
SafeAmount(amount, solBalance) ==
    amount >= minTransactionAmount /\ amount <= solBalance

\* the catch of autonomousCycle logs the error and returns
LiveFailed(l) ==
    [l EXCEPT !.pc = "idle", !.outcome = "failed", !.failed = @ + 1]

LiveComplete(l) == [l EXCEPT !.pc = "idle", !.outcome = "complete"]

LiveInit ==
    /\ AgentIdle
    /\ ExecIdle
    /\ live = [NoLive EXCEPT !.running = TRUE]
    /\ strategy = NoStrategy
    /\ routines = NoRoutines

\* main() calls autonomousCycle, and so does every timer period after it
LiveCycle ==
    /\ live.pc = "idle"
    /\ live.running
    /\ live.cycles < MaxLiveCycles
    /\ live' = [live EXCEPT !.pc = "balances", !.cycles = @ + 1, !.solBalance = 0,
                            !.action = "none", !.amount = 0, !.transfers = 0,
                            !.outcome = "none"]
    /\ UNCHANGED <<agentVars, execArgs, execRes, strategy, routines>>

\* await getBalances() settles
LiveBalancesDone(ok, balances) ==
    /\ live.pc = "balances"
    /\ live' = IF ok
               THEN [live EXCEPT !.pc = "llama", !.solBalance = solBalanceOf(balances, 0)]
               ELSE LiveFailed(live)
    /\ UNCHANGED <<agentVars, execArgs, execRes, strategy, routines>>

\* await queryLlama(prompt) settles; steps 4 and 5 up to executeSolTransfer
LiveLlamaDone(ok, response) ==
    /\ live.pc = "llama"
    /\ live' =
         IF ~ok \/ response.kind \in {"undefined", "malformed"} THEN LiveFailed(live)
         ELSE IF response.kind = "prose" THEN LiveComplete(live)
         ELSE LET decided == [live EXCEPT !.action = response.action]
                  amount == parseAmount(response.amount)
              IN IF executeTransactions /\ response.action = "transfer_sol"
                 THEN IF SafeAmount(amount, live.solBalance)
                      THEN [decided EXCEPT !.pc = "transfer", !.amount = amount,
                                           !.transfers = @ + 1]
                      ELSE LiveComplete([decided EXCEPT !.amount = amount])
                 ELSE LiveComplete(decided)
    /\ UNCHANGED <<agentVars, execArgs, execRes, strategy, routines>>

\* await executeSolTransfer(amount) settles: a missing txHash or a failed
\* request is thrown again by executeSolTransfer
LiveTransferDone(ok) ==
    /\ live.pc = "transfer"
    /\ live' = IF ok THEN LiveComplete(live) ELSE LiveFailed(live)
    /\ UNCHANGED <<agentVars, execArgs, execRes, strategy, routines>>

LiveAgentNext ==
    \/ LiveCycle
    \/ \E ok \in BOOLEAN, balances \in LiveBalances : LiveBalancesDone(ok, balances)
    \/ \E ok \in BOOLEAN, response \in LiveResponses : LiveLlamaDone(ok, response)
    \/ \E ok \in BOOLEAN : LiveTransferDone(ok)

SpecLiveAgent == LiveInit /\ [][LiveAgentNext]_vars

\* =========================================================================
\* PredictionMarketStrategy.execute, split at its two awaits (the quote and
\* the trade).  strategy.positions holds the keys of the positions Map;
\* quoting and trading count, per ticker, the calls suspended at each await;
\* last is how the latest call to end did so.  Tickers are interchangeable:
\* a signal names a ticker that is tracked or being traded, or the first
\* one that is neither.
\* =========================================================================
RECURSIVE SumUpTo(_, _)
SumUpTo(f, n) == IF n = 0 THEN 0 ELSE f[n] + SumUpTo(f, n - 1)

\* this.positions.size >= this.maxPositions && !this.positions.has(signal.ticker)
Refused(positions, ticker) ==
    Cardinality(positions) >= maxPositions /\ ticker \notin positions

StrategyInit ==
    /\ AgentIdle
    /\ ExecIdle
    /\ live = NoLive
    /\ strategy = NoStrategy
    /\ routines = NoRoutines

\* execute(signal, wallet) up to await this.trader.getBuyQuote(...): the
\* first log line reads signal.ticker outside the try
ExecuteCall(hasSignal, ticker) ==
    /\ SumUpTo(strategy.quoting, MaxTickers) + SumUpTo(strategy.trading, MaxTickers)
          < MaxOverlap
    /\ \A t \in 1..(ticker - 1) :
          t \in strategy.positions \/ strategy.quoting[t] > 0 \/ strategy.trading[t] > 0
    /\ strategy' =
         IF ~hasSignal THEN [strategy EXCEPT !.last = "threw"]
         ELSE IF Refused(strategy.positions, ticker)
         THEN [strategy EXCEPT !.last = "failed"]
         ELSE [strategy EXCEPT !.quoting[ticker] = @ + 1]
    /\ UNCHANGED <<agentVars, execArgs, execRes, live, routines>>

\* await this.trader.getBuyQuote(...) settles
QuoteDone(ticker, ok) ==
    /\ strategy.quoting[ticker] > 0
    /\ strategy' =
         IF ok THEN [strategy EXCEPT !.quoting[ticker] = @ - 1, !.trading[ticker] = @ + 1]
         ELSE [strategy EXCEPT !.quoting[ticker] = @ - 1, !.last = "failed"]
    /\ UNCHANGED <<agentVars, execArgs, execRes, live, routines>>

\* await this.trader.executeTrade(quote) settles, and the rest of execute
TradeDone(ticker, ok) ==
    /\ strategy.trading[ticker] > 0
    /\ strategy' =
         IF ok THEN [strategy EXCEPT !.trading[ticker] = @ - 1,
                                     !.positions = @ \cup {ticker}, !.last = "ok"]
         ELSE [strategy EXCEPT !.trading[ticker] = @ - 1, !.last = "failed"]
    /\ UNCHANGED <<agentVars, execArgs, execRes, live, routines>>

StrategyNext ==
    \/ \E hasSignal \in BOOLEAN, ticker \in Tickers : ExecuteCall(hasSignal, ticker)
    \/ \E ticker \in Tickers, ok \in BOOLEAN : QuoteDone(ticker, ok)
    \/ \E ticker \in Tickers, ok \in BOOLEAN : TradeDone(ticker, ok)

SpecStrategy == StrategyInit /\ [][StrategyNext]_vars

\* =========================================================================
\* Properties
\* =========================================================================

\* C1: an error raised in any cycle, the immediate first one included, is
\* caught at the cycle boundary and never leaves the orchestrator: no
\* startAutonomousLoop call ends with an exception instead of an armed timer.
C1_CycleErrorContained == \A l \in Loops : loopPc[l] # "threw"

\* C2: at most one decision cycle is in flight at any time.
C2_OneCycleInFlight == Cardinality({c \in Cycles : InFlight(c)}) <= 1

\* C3 as stated: while stop() has not been called, every tick of the
\* installed timer starts a new cycle.
C3_EveryTickStarts == ~hist.idleTick

\* C3 amended: on an agent whose initialize() has succeeded, while stop() has
\* not been called, every tick of the installed timer starts a new cycle
\* whatever became of the earlier ones, and as long as the timer is armed
\* another tick-started cycle follows (until stop(), or until the budget of
\* periods or of cycles is used up).
C3_TicksKeepStarting ==
    /\ [](~hist.idleTickInit)
    /\ \A k \in 0..(MaxCycles - 1) :
          (timers # {} /\ hist.initOk /\ ~hist.stopCalled
               /\ hist.tickStarted = k /\ now < MaxTime)
          ~> (hist.stopCalled \/ hist.tickStarted > k \/ started = MaxCycles)

\* a timer-driven cycle failed and a later tick still started a cycle
C3_TickAfterFailure ==
    \E c \in Cycles, d \in Cycles :
        /\ c < d
        /\ cyc[c].pc = "failed" /\ cyc[c].origin = "timer"
        /\ cyc[d].origin = "timer" /\ cyc[d].pc # "idle"
        /\ ~hist.stopCalled

\* C4: no cycle that begins after stop() was called passes the guard and
\* performs a step.
C4_NoCycleAfterStop == \A c \in Cycles : ~cyc[c].afterStop

\* C5: once stop() has returned, no timer of this agent is armed.
C5_StopCancelsTimer == hist.stopCalled => timers = {}

\* C6: once stop() has been called the agent is never active again.
C6_StoppedIsTerminal == hist.stopCalled => ~isActive

\* C7: initialize() fails only when neither model provider is available.
C7_OnlyModelsFatal ==
    initResult \in {"wallet", "models", "balances"} => initResult = "models"

\* C8: when the probe finds no provider initialize() fails and leaves the
\* agent inactive; no cycle passes the guard, pays, queries, dispatches or
\* records unless an initialize() call has succeeded before it.
C8_NoCycleBeforeInit ==
    /\ initResult = "models" => ~probe
    /\ initResult = "ok" => probe
    /\ isActive => hist.initOk
    /\ \A c \in Cycles : ~cyc[c].uninit
    /\ ~hist.initOk =>
          /\ started = 0
          /\ hist.payments = 0 /\ costs.computeTotal = 0
          /\ perf.events = <<>> /\ perf.snapshots = <<>>
          /\ decisionHistory = <<>>

\* initialize() failed for want of a provider, the loop was started all the
\* same, and its timer ticked on the inactive agent
C8_FatalInitSeen == initResult = "models" /\ ~hist.initOk /\ hist.idleTick

\* C9: in every analyzeAndDecide call the primary provider is queried first;
\* the fallback is queried only after the primary failed, and always then
\* when it is configured; when all providers failed the call returns the
\* empty list and the cycle goes on to its end - a cycle only ever fails
\* before its first model query.
C9_FallbackOrder ==
    \A c \in Cycles :
        /\ cyc[c].queried \in {<<>>, <<"primary">>, <<"primary", "fallback">>}
        /\ cyc[c].answer = "primary" => cyc[c].queried = <<"primary">>
        /\ Len(cyc[c].queried) = 2 => fallbackConfigured /\ cyc[c].answer # "primary"
        /\ cyc[c].answer \in {"fallback", "nobody"} /\ fallbackConfigured
              => cyc[c].queried = <<"primary", "fallback">>
        /\ cyc[c].answer = "nobody" => cyc[c].pc = "done"
        /\ cyc[c].pc = "failed" => cyc[c].queried = <<>>
        /\ cyc[c].pc \in {"primary", "fallback", "dispatch", "done"}
              => cyc[c].queried # <<>>

\* both providers were queried in order, both failed, the cycle completed
C9_BothFailed ==
    \E c \in Cycles : /\ cyc[c].queried = <<"primary", "fallback">>
                      /\ cyc[c].answer = "nobody"
                      /\ cyc[c].pc = "done"

\* obj occurs in text as a contiguous piece
Holds(text, obj) ==
    \E i \in 1..Len(text) :
        /\ i + Len(obj) - 1 <= Len(text)
        /\ SubSeq(text, i, i + Len(obj) - 1) = obj

\* obj occurs in text between two pieces without braces
Surrounded(text, obj) ==
    \E i \in 1..Len(text) :
        /\ i + Len(obj) - 1 <= Len(text)
        /\ SubSeq(text, i, i + Len(obj) - 1) = obj
        /\ BraceFree(SubSeq(text, 1, i - 1))
        /\ BraceFree(SubSeq(text, i + Len(obj), Len(text)))

ParseNeverThrows ==
    /\ ~parsed.threw
    /\ aiResponse = Undefined => parsed.val = EmptyList
    /\ Positions(aiResponse, "{") = {} => parsed.val = EmptyList
    /\ aiResponse \in BrokenTexts => parsed.val = EmptyList
    /\ aiResponse = ObjectText(<<>>) => parsed.val = EmptyList

\* C10 as stated: parseDecisions never throws; no object, unparseable braces
\* or a missing response give []; {"decisions":[]} gives []; a response
\* holding a valid object with n decisions gives those n decisions.
C10_HoldingObject ==
    parsed.done =>
        /\ ParseNeverThrows
        /\ \A ds \in DecisionLists :
               Holds(aiResponse, ObjectText(ds)) => parsed.val = JArr(ObjectsOf(ds))

\* C10 amended: ... a response made of a valid object with n decisions and,
\* around it, text without braces gives those n decisions, in order, with
\* their fields unchanged.
C10_ParseRobust ==
    parsed.done =>
        /\ ParseNeverThrows
        /\ \A ds \in DecisionLists :
               Surrounded(aiResponse, ObjectText(ds)) => parsed.val = JArr(ObjectsOf(ds))

\* a two-decision object inside prose has been parsed
C10_ParsedTwo ==
    /\ parsed.done
    /\ aiResponse = <<"x">> \o ObjectText(<<"lend", "hold">>) \o <<"x">>
    /\ parsed.val = JArr(ObjectsOf(<<"lend", "hold">>))

\* C11: a decision returned by applyRiskFilters is not high-risk and, when
\* it names an amount, the amount is at least 0.01; no amount of 0 or
\* below 0.01 is accepted.
C11_RiskRules ==
    filterRes.calls >= 1 =>
        \A i \in 1..Len(filterRes.accepted) :
            LET d == FieldsOf(filterRes.accepted[i])
            IN /\ d.riskLevel # "high"
               /\ d.hasAmount => d.amount >= 10

\* s is t with some elements left out, the others in their order
RECURSIVE IsSubSeq(_, _)
IsSubSeq(s, t) ==
    IF s = <<>> THEN TRUE
    ELSE IF t = <<>> THEN FALSE
    ELSE IF Head(s) = Head(t) THEN IsSubSeq(Tail(s), Tail(t))
    ELSE IsSubSeq(s, Tail(t))

\* C13: the accepted list is a subsequence of the input in the input's
\* order, filtering it again with the same state returns it unchanged, and
\* the call leaves the decision history as it was.
C13_FilterIdempotent ==
    /\ filterRes.calls >= 1 => IsSubSeq(filterRes.accepted, filterArgs.decisions)
    /\ filterRes.calls = 2 => filterRes.again = filterRes.accepted
    /\ decisionHistory = <<>>

\* two different decisions were accepted and the list was filtered again
C13_TwoKeptTwice ==
    /\ filterRes.calls = 2
    /\ Len(filterRes.accepted) = 2
    /\ filterRes.accepted[1] # filterRes.accepted[2]

\* the cycle has been through analyzeAndDecide
Decided(c) == cyc[c].answer # "none"

\* C12: in a cycle whose assessed portfolio value is below the floor the
\* filter rejects every proposed decision: analyzeAndDecide returns the
\* empty list and no executor is called in that cycle.
C12_FloorBlocksAll ==
    \A c \in Cycles :
        Decided(c) /\ cyc[c].totalValue < LiquidityFloor =>
            /\ cyc[c].accepted = <<>>
            /\ cyc[c].handed = <<>>
            /\ cyc[c].pc # "dispatch"

\* a cycle below the floor completed although its response proposed a
\* decision that passes the two other rules
C12_LowValueProposal ==
    \E c \in Cycles :
        /\ cyc[c].pc = "done"
        /\ cyc[c].totalValue < LiquidityFloor
        /\ \E i \in 1..Len(cyc[c].proposed) :
               PassesRiskNoFloor(FieldsOf(cyc[c].proposed[i]), cyc[c].totalValue)

\* the decisions of a batch that have an executor, in batch order
RECURSIVE WithExecutor(_)
WithExecutor(list) ==
    IF list = <<>> THEN <<>>
    ELSE IF FieldsOf(Head(list)).action \in KnownActions
         THEN <<Head(list)>> \o WithExecutor(Tail(list))
         ELSE WithExecutor(Tail(list))

\* the decisions of the batch of cycle c that executeDecisions is through with
Processed(c) == Len(cyc[c].accepted) - Len(cyc[c].todo)

SettledCalls(ok) ==
    {<<c, i>> \in Cycles \X (1..MaxDecisions) :
        i <= Len(cyc[c].handed) /\ cyc[c].handed[i].ok = ok}

\* C14: every decision of an accepted batch that has an executor is handed
\* to it, in batch order, whatever became of the earlier ones; one result
\* event is appended per decision, decision_failed exactly for the
\* executor calls that threw; and no executor failure fails the cycle.
C14_DispatchIndependent ==
    /\ \A c \in Cycles :
          /\ Len(cyc[c].handed) <= Len(WithExecutor(cyc[c].accepted))
          /\ \A i \in 1..Len(cyc[c].handed) :
                cyc[c].handed[i].decision = WithExecutor(cyc[c].accepted)[i]
          /\ cyc[c].pc = "done" =>
                Len(cyc[c].handed) = Len(WithExecutor(cyc[c].accepted))
          /\ cyc[c].pc = "failed" => ~Decided(c)
    /\ CountType(perf.events, "decision_failed") = Cardinality(SettledCalls(FALSE))
    /\ CountType(perf.events, "decision_executed")
         + CountType(perf.events, "decision_failed")
       = Cardinality({<<c, i>> \in Cycles \X (1..MaxDecisions) : i <= Processed(c)})

\* in a batch of two the first executor failed and the second was still
\* called and returned
C14_FailureThenNext ==
    \E c \in Cycles :
        /\ cyc[c].pc = "done"
        /\ Len(cyc[c].handed) = 2
        /\ ~cyc[c].handed[1].ok
        /\ cyc[c].handed[2].ok

\* C15: a decision whose action has no executor is skipped and not recorded
\* as executed: the decision_executed events are exactly the executor
\* calls that returned.
C15_UnknownNotRecorded ==
    CountType(perf.events, "decision_executed") = Cardinality(SettledCalls(TRUE))

\* C16: an estimate reports a payment as due exactly when the cost accrued
\* since the last payment, or since the agent's start when nothing has been
\* paid yet, has reached the threshold, and its amount is that accrued cost.
C16_DueWhenAccrued ==
    estimate.taken =>
        /\ estimate.shouldPay <=> (estimate.at - estimate.since >= PayThreshold)
        /\ estimate.amount = estimate.at - estimate.since

\* C17: an estimate taken after a payment says shouldPay exactly when the
\* time since that payment has reached 12 minutes: not at once, and not
\* one or two 5-minute periods later.
C17_PayAgainAfterThreshold ==
    estimate.taken /\ estimate.afterPayment =>
        /\ estimate.shouldPay <=> (estimate.at - estimate.since >= PayThreshold)
        /\ estimate.at - estimate.since \in {0, loopInterval, 2 * loopInterval}
              => ~estimate.shouldPay

\* two periods after a payment the estimate says nothing is due
C17_TwoPeriodsLater ==
    /\ estimate.taken
    /\ estimate.afterPayment
    /\ estimate.at - estimate.since = 2 * loopInterval
    /\ ~estimate.shouldPay

\* C18: no CostManager operation, whatever its arguments, decreases the
\* paid compute total or an accrued total, and estimateCurrentCosts
\* changes none of them.
C18_CostsMonotone ==
    /\ costs.computeTotal >= costHist.before.computeTotal
    /\ costs.apiTotal >= costHist.before.apiTotal
    /\ costs.transactionsTotal >= costHist.before.transactionsTotal
    /\ costHist.last = "estimate" => costs = costHist.before

IsPrefix(s, t) == Len(s) <= Len(t) /\ SubSeq(t, 1, Len(s)) = s

Ordered(entries) ==
    \A i \in 1..Len(entries), j \in 1..Len(entries) :
        i <= j => entries[i].timestamp <= entries[j].timestamp

\* C19: each record call appends one entry and leaves the stored ones as
\* they were: the ledgers before a call are prefixes of the ledgers after
\* it, the number of entries is the number of calls, and the timestamps
\* do not decrease along a ledger.
C19_LedgerAppendOnly ==
    /\ IsPrefix(calls.before.snapshots, perf.snapshots)
    /\ IsPrefix(calls.before.events, perf.events)
    /\ Len(perf.snapshots) = calls.snapshots
    /\ Len(perf.events) = calls.events
    /\ Ordered(perf.snapshots)
    /\ Ordered(perf.events)

\* two events were recorded at different times
C19_TwoEventsApart ==
    /\ calls.events >= 2
    /\ calls.snapshots >= 1
    /\ perf.events[1].timestamp < perf.events[Len(perf.events)].timestamp

LastN(s, n) == IF Len(s) <= n THEN s ELSE SubSeq(s, Len(s) - n + 1, Len(s))

\* C20: the decision history never holds more than 100 batches and always
\* holds the most recent ones of all the batches logged, in their order.
C20_HistoryBound ==
    /\ Len(decisionHistory) <= HistoryCap
    /\ decisionHistory = LastN(logged, HistoryCap)

\* more batches than the capacity were logged and the oldest are gone
C20_OldestEvicted ==
    /\ Len(logged) = HistoryCap + MaxOverflow
    /\ Len(decisionHistory) = HistoryCap
    /\ decisionHistory[1] # logged[1]
    /\ decisionHistory[HistoryCap] # decisionHistory[HistoryCap - 1]

\* C21: whenever a record call has returned, autonomousDecisions is the
\* number of decision_executed events in the ledger and
\* selfSufficientCycles the number of self_payment events.
C21_CountersFromLedger ==
    /\ perf.autonomousDecisions = CountType(perf.events, "decision_executed")
    /\ perf.selfSufficientCycles = CountType(perf.events, "self_payment")

\* the price of the table for a symbol, 0 for a symbol that is not in it
TablePrice(symbol) ==
    IF toLowerCase(symbol) \in {"sol", "usdc", "eth"} THEN Price(toLowerCase(symbol)) ELSE 0

\* the sum of the values of the balances of a list of wallets
RECURSIVE SumOfBalances(_)
SumOfBalances(bs) ==
    IF bs = <<>> THEN 0
    ELSE (Head(bs).rawValue * TablePrice(Head(bs).asset)) \div Pow10(Head(bs).decimals)
         + SumOfBalances(Tail(bs))

WalletsTotal(l) ==
    IF l.present /\ l.list # <<>> /\ l.list[1].hasBalances
    THEN SumOfBalances(l.list[1].balances) ELSE 0

\* C22: calculateTotalValue returns the sum, over the balances of all
\* Solana and EVM wallets, of rawValue / 10^decimals times the table price,
\* a symbol outside the table counting 0; a second call on the same report
\* returns the same total.
C22_ValuationSum ==
    /\ valueRes.calls >= 1 =>
          /\ ~valueRes.first.nan
          /\ valueRes.first.cents = WalletsTotal(valueArgs.solanaWallets)
                                    + WalletsTotal(valueArgs.evmWallets)
    /\ valueRes.calls = 2 => valueRes.second = valueRes.first

\* C23: the step on which initialize() ends successfully leaves the agent
\* active and the performance ledger with exactly one entry, a snapshot of
\* kind initialization carrying the initial portfolio value; from then on
\* every step leaves that snapshot the first of the ledger.
C23_InitialSnapshotFirst ==
    [][ /\ (~hist.initOk /\ hist'.initOk) =>
              /\ isActive'
              /\ perf'.events = <<>>
              /\ Len(perf'.snapshots) = 1
              /\ perf'.snapshots[1].type = "initialization"
              /\ perf'.snapshots[1].totalValue = hist'.initValue
        /\ hist.initOk =>
              /\ Len(perf'.snapshots) >= Len(perf.snapshots)
              /\ perf'.snapshots[1] = perf.snapshots[1] ]_vars

\* a cycle has completed after the initialization: its snapshot is second
C23_LaterSnapshot ==
    /\ hist.initOk
    /\ Len(perf.snapshots) >= 2
    /\ perf.snapshots[1].type = "initialization"
    /\ perf.snapshots[2].type = "cycle_complete"
    /\ perf.snapshots[2].timestamp > perf.snapshots[1].timestamp

\* the place of a step in the order Assess, Pay, Decide, Filter, Dispatch,
\* Record
StepRank(step) ==
    IF step = "assess" THEN 1
    ELSE IF step = "self_payment" THEN 2
    ELSE IF step = "query" THEN 3
    ELSE IF step = "filter" THEN 4
    ELSE IF step \in {"dispatch", "decision_executed", "decision_failed"} THEN 5
    ELSE IF step = "cycle_complete" THEN 6
    ELSE 0

\* the steps of a cycle other than the marks left by stop()
CycleSteps(c) == SelectSeq(cyc[c].trace, LAMBDA s : StepRank(s) > 0)

StepCount(tr, step) == Cardinality({i \in 1..Len(tr) : tr[i] = step})

\* the event types the cycles have recorded, cycle after cycle
RECURSIVE EventsUpTo(_)
EventsUpTo(n) ==
    IF n = 0 THEN <<>>
    ELSE EventsUpTo(n - 1)
         \o SelectSeq(cyc[n].trace,
                      LAMBDA s : s \in {"self_payment", "decision_executed", "decision_failed"})

\* C24: the steps of one cycle occur in the order Assess, Pay, Decide,
\* Filter, Dispatch, Record: the assessment comes first, at most one payment
\* follows it before any model request, the filter runs after the last
\* model request and before any executor call, the decision events follow,
\* and the cycle_complete snapshot is the single last step; the events of
\* the ledger are those of the cycles in this order.
C24_StepOrder ==
    /\ \A c \in Cycles :
          LET tr == CycleSteps(c)
          IN /\ tr # <<>> => tr[1] = "assess"
             /\ \A i, j \in 1..Len(tr) : i < j => StepRank(tr[i]) <= StepRank(tr[j])
             /\ StepCount(tr, "assess") <= 1
             /\ StepCount(tr, "self_payment") <= 1
             /\ StepCount(tr, "filter") <= 1
             /\ StepCount(tr, "cycle_complete") <= 1
             /\ cyc[c].pc = "done" => tr[Len(tr)] = "cycle_complete"
    /\ [i \in 1..Len(perf.events) |-> perf.events[i].type] = EventsUpTo(MaxCycles)

\* a cycle went through all six steps, with a payment and two executor calls
C24_FullCycle ==
    \E c \in Cycles :
        /\ cyc[c].pc = "done"
        /\ StepCount(cyc[c].trace, "self_payment") = 1
        /\ StepCount(cyc[c].trace, "query") = 2
        /\ StepCount(cyc[c].trace, "dispatch") = 2
        /\ StepCount(cyc[c].trace, "decision_failed") = 1

\* C25: a cycle that waits for the Primary provider eventually completes or
\* fails, whether or not the provider ever answers.
C25_PrimaryTimesOut ==
    \A c \in Cycles : (cyc[c].pc = "primary") ~> (cyc[c].pc \in {"done", "failed"})

\* the request an activation waits for can settle, either way
CanSettle(c) ==
    IF cyc[c].pc = "assess"
    THEN \A ok \in BOOLEAN : ENABLED (\E report \in Reports : AssessDone(c, ok, report))
    ELSE IF cyc[c].pc = "primary"
    THEN \A ok \in BOOLEAN : ENABLED (\E r \in CycleResponses : PrimaryDone(c, ok, r))
    ELSE IF cyc[c].pc = "fallback"
    THEN \A ok \in BOOLEAN : ENABLED (\E r \in CycleResponses : FallbackDone(c, ok, r))
    ELSE \A ok \in BOOLEAN : ENABLED ExecutorDone(c, ok)

\* the steps an activation made after stop() was called on it
AfterStop(c) ==
    LET tr == cyc[c].trace
        at == CHOOSE i \in 1..Len(tr) : tr[i] = "stop"
    IN SubSeq(tr, at + 1, Len(tr))

\* C26: stop() does not abort an in-flight cycle.  A suspended activation
\* goes on when its request settles whether or not the agent is still
\* active, the steps it makes after stop() keep the order of the cycle, and
\* when it returns it has called an executor for every accepted decision
\* that has one and has recorded its cycle_complete snapshot.
C26_StopLeavesCycleRunning ==
    \A c \in Cycles :
        /\ InFlight(c) => CanSettle(c)
        /\ Stopped(c) /\ cyc[c].pc = "done" =>
              /\ AfterStop(c) # <<>>
              /\ AfterStop(c)[Len(AfterStop(c))] = "cycle_complete"
              /\ Len(cyc[c].handed) = Len(WithExecutor(cyc[c].accepted))

\* stop() was called while a cycle waited for its balances; the cycle then
\* paid the compute bill, called an executor and recorded its snapshot
C26_WorkAfterStop ==
    \E c \in Cycles :
        /\ cyc[c].pc = "done"
        /\ Stopped(c)
        /\ ~isActive
        /\ cyc[c].trace[1] = "stop"
        /\ StepCount(AfterStop(c), "self_payment") = 1
        /\ StepCount(AfterStop(c), "dispatch") = 1
        /\ StepCount(AfterStop(c), "cycle_complete") = 1

\* C27: a cycle whose balance request failed has made no payment, no model
\* request and no dispatch and has recorded nothing, and the cycles after it
\* go on: the recurring timer that drives them is armed.
C27_WalletErrorLocal ==
    \A c \in Cycles :
        cyc[c].pc = "failed" =>
            /\ cyc[c].trace = <<>>
            /\ cyc[c].queried = <<>>
            /\ cyc[c].handed = <<>>
            /\ loopTimer = cyc[c].who
            /\ cyc[c].who \in timers

\* analyzeAndDecide of cycle c got no decision out of the models: every
\* provider failed, or the response that came had nothing to parse
NoDecisions(c) ==
    \/ cyc[c].answer = "nobody"
    \/ cyc[c].answer \in {"primary", "fallback"} /\ cyc[c].proposed = <<>>

\* C28: a model failure or a parse failure does not fail the cycle.  A cycle
\* never fails once analyzeAndDecide was entered; when all providers failed
\* or the response held nothing usable the accepted list is empty, no
\* executor is called, and the cycle ends with its cycle_complete snapshot;
\* the payments made are all kept in the cost ledger and the event ledger.
C28_ModelFailureContained ==
    /\ \A c \in Cycles :
          /\ cyc[c].pc = "failed" => cyc[c].answer = "none" /\ cyc[c].trace = <<>>
          /\ NoDecisions(c) =>
                /\ cyc[c].pc = "done"
                /\ cyc[c].accepted = <<>>
                /\ cyc[c].handed = <<>>
                /\ StepCount(cyc[c].trace, "dispatch") = 0
                /\ cyc[c].trace[Len(cyc[c].trace)] = "cycle_complete"
    /\ CountType(perf.events, "self_payment") = hist.payments
    /\ hist.payments > 0 => costs.computeTotal > 0 /\ costs.lastPayment > 0

\* one cycle paid, found both providers failing and completed; the next got
\* a response without JSON and completed too
C28_FailuresSurvived ==
    \E c, d \in Cycles :
        /\ cyc[c].pc = "done" /\ cyc[c].answer = "nobody"
        /\ cyc[c].trace = <<"assess", "self_payment", "query", "query", "cycle_complete">>
        /\ cyc[d].pc = "done" /\ cyc[d].answer = "primary" /\ cyc[d].proposed = <<>>
        /\ Len(perf.snapshots) = 3
        /\ hist.payments >= 1

\* the cycles that have completed, in the order they began
DoneCycles == SelectSeq([c \in Cycles |-> c], LAMBDA c : cyc[c].pc = "done")

\* the cycle_complete snapshots of the ledger, in ledger order
CompleteSnapshots == SelectSeq(perf.snapshots, LAMBDA s : s.type = "cycle_complete")

\* C29: every completed cycle has appended exactly one cycle_complete
\* snapshot, carrying the portfolio value the cycle assessed at its start,
\* whatever was proposed, accepted or executed; a cycle whose accepted list
\* is empty has recorded no decision event; a failed cycle, or one still
\* running, has appended no snapshot.
C29_OneSnapshotPerCycle ==
    /\ Len(CompleteSnapshots) = Len(DoneCycles)
    /\ \A i \in 1..Len(DoneCycles) :
          /\ CompleteSnapshots[i].totalValue = cyc[DoneCycles[i]].totalValue
          /\ StepCount(cyc[DoneCycles[i]].trace, "cycle_complete") = 1
    /\ perf.cycleCount = Len(DoneCycles)
    /\ \A c \in Cycles :
          /\ cyc[c].accepted = <<>> =>
                /\ StepCount(cyc[c].trace, "decision_executed") = 0
                /\ StepCount(cyc[c].trace, "decision_failed") = 0
          /\ cyc[c].pc # "done" => StepCount(cyc[c].trace, "cycle_complete") = 0
    /\ (\A c \in Cycles : cyc[c].accepted = <<>>) =>
          \A i \in 1..Len(perf.events) : perf.events[i].type = "self_payment"

\* two cycles completed on different portfolio values, the first with an
\* executed decision, the second with nothing accepted; a third snapshot is
\* the initial one
C29_TwoCyclesTwoValues ==
    /\ Len(DoneCycles) = 2
    /\ cyc[1].accepted # <<>> /\ cyc[1].handed # <<>>
    /\ cyc[2].accepted = <<>>
    /\ cyc[1].totalValue # cyc[2].totalValue
    /\ Len(perf.snapshots) = 3

\* the decisions cycle c has handed to executors, in the order of the calls
HandedDecisions(c) == [i \in 1..Len(cyc[c].handed) |-> cyc[c].handed[i].decision]

DecisionEvents(c) ==
    StepCount(cyc[c].trace, "decision_executed") + StepCount(cyc[c].trace, "decision_failed")

\* C30 as stated: in a completed cycle the sequence of decisions handed to
\* executors is exactly the list the risk filter returned.
C30_HandedIsFilterResult ==
    \A c \in Cycles : cyc[c].pc = "done" => HandedDecisions(c) = cyc[c].accepted

\* C30 amended: the accepted list of a cycle is the risk filter's result on
\* the parsed decisions; the decisions handed to executors are exactly the
\* accepted ones whose action has an executor, each once and in filter
\* order; a decision the filter rejects is handed to no executor, and the
\* cycle records no more decision events than it accepted decisions.
C30_OnlyAcceptedDispatched ==
    \A c \in Cycles :
        /\ cyc[c].accepted = FilterSeq(cyc[c].proposed, cyc[c].totalValue)
        /\ IsPrefix(HandedDecisions(c), WithExecutor(cyc[c].accepted))
        /\ cyc[c].pc = "done" => HandedDecisions(c) = WithExecutor(cyc[c].accepted)
        /\ \A i \in 1..Len(cyc[c].handed) :
              /\ PassesRisk(FieldsOf(cyc[c].handed[i].decision), cyc[c].totalValue)
              /\ FieldsOf(cyc[c].handed[i].decision).action \in KnownActions
        /\ StepCount(cyc[c].trace, "dispatch") <= Len(cyc[c].accepted)
        /\ DecisionEvents(c) <= Len(cyc[c].accepted)

\* of two proposed decisions the filter rejected the first; only the second
\* was handed to an executor
C30_RejectedNotDispatched ==
    \E c \in Cycles :
        /\ cyc[c].pc = "done"
        /\ Len(cyc[c].proposed) = 2
        /\ ~PassesRisk(FieldsOf(cyc[c].proposed[1]), cyc[c].totalValue)
        /\ cyc[c].accepted = <<cyc[c].proposed[2]>>
        /\ HandedDecisions(c) = cyc[c].accepted
        /\ DecisionEvents(c) = 1

\* the largest fall from the running peak over a sequence of values, in
\* whole percent
PeakUpTo(values, i) == Max({values[j] : j \in 1..i} \cup {0})

MaxDrawdownOf(values) ==
    Max({ IF PeakUpTo(values, i) > 0
          THEN ((PeakUpTo(values, i) - values[i]) * 100) \div PeakUpTo(values, i)
          ELSE 0 : i \in 1..Len(values) } \cup {0})

\* C31: once the ledger holds at least 2 snapshots, maxDrawdown is the
\* maximum over the snapshot sequence of (peak-so-far - value) / peak-so-far,
\* as a percentage.
C31_MaxDrawdown ==
    Len(perf.snapshots) >= 2 =>
        perf.maxDrawdown =
            MaxDrawdownOf([i \in 1..Len(perf.snapshots) |-> perf.snapshots[i].totalValue])

\* C32: an executor call never throws: it ends with one result record, and
\* a call that cannot be carried out (no such protocol, a wallet error) ends
\* with a record whose success is false.
C32_ExecutorNeverThrows ==
    execRes.done =>
        /\ ~execRes.threw
        /\ (execArgs.action = "rebalance" /\ ~execArgs.walletOk) => ~execRes.success

\* C33: the compute total paid so far is at most the compute cost accrued
\* since the agent's start (one unit a minute).
C33_PaidAtMostAccrued == costs.computeTotal <= now - StartTime

\* the self-payments the cycles have made, all together
RECURSIVE PaymentsUpTo(_)
PaymentsUpTo(n) ==
    IF n = 0 THEN 0 ELSE PaymentsUpTo(n - 1) + StepCount(cyc[n].trace, "self_payment")

\* C34: a cycle makes at most one self-payment, and makes it exactly when
\* its own estimate reported shouldPay; the self_payment events of the
\* ledger are as many as the payments the CostManager has recorded.
C34_OnePaymentPerCycle ==
    /\ \A c \in Cycles :
          /\ StepCount(cyc[c].trace, "self_payment") <= 1
          /\ cyc[c].shouldPay <=> StepCount(cyc[c].trace, "self_payment") = 1
    /\ PaymentsUpTo(MaxCycles) = hist.payments
    /\ CountType(perf.events, "self_payment") = PaymentsUpTo(MaxCycles)
    /\ hist.payments > 0 <=> costs.lastPayment > 0

\* one cycle paid and a later one, whose estimate found nothing due, did not
C34_PaidThenNotDue ==
    \E c, d \in Cycles :
        /\ c < d
        /\ cyc[c].shouldPay /\ cyc[c].pc = "done"
        /\ ~cyc[d].shouldPay /\ cyc[d].pc = "done"
        /\ hist.payments = 1
        /\ CountType(perf.events, "self_payment") = 1

\* the cycles whose analyzeAndDecide obtained a model response, in order
AnsweredCycles ==
    SelectSeq([c \in Cycles |-> c], LAMBDA c : cyc[c].answer \in {"primary", "fallback"})

\* C35: the decision history holds one batch for every analyzeAndDecide call
\* that obtained a model response, parsable or not, in the order of the
\* calls, each batch being the accepted decisions of its call, and nothing
\* else.
C35_OneBatchPerResponse ==
    decisionHistory =
        [i \in 1..Len(AnsweredCycles) |-> [decisions |-> cyc[AnsweredCycles[i]].accepted]]

\* C36: the live agent requests a transfer only for a decision whose action
\* is transfer_sol and whose amount is at least minTransactionAmount and at
\* most the SOL balance read in the same cycle; a cycle requests at most
\* one transfer; and whatever failed in a cycle, the loop keeps running.
C36_TransferOnlyWhenSafe ==
    /\ live.transfers <= 1
    /\ live.transfers = 1 =>
          /\ live.action = "transfer_sol"
          /\ live.amount >= minTransactionAmount
          /\ live.amount <= live.solBalance
    /\ live.pc = "transfer" => live.transfers = 1
    /\ live.failed > 0 => live.running

\* C36 witness: after a cycle that failed, a later cycle has transferred
\* two hundredths of SOL out of a balance of two and is complete
C36_TransferAfterFailure ==
    /\ live.failed > 0
    /\ live.cycles > live.failed
    /\ live.outcome = "complete"
    /\ live.transfers = 1
    /\ live.amount = 2

\* C37: the position table of the strategy never holds more than
\* maxPositions tickers, whatever execute calls were made.
C37_AtMostMaxPositions ==
    Cardinality(strategy.positions) <= maxPositions

\* C38: on every balance report the four valuation routines return the same
\* total: TreasuryAgent.calculateTotalValue, AgentWallet.calculateTotalValue
\* and the calculateValue of the simple and of the live agent.
C38_RoutinesAgree ==
    routines.done =>
        /\ routines.agent = routines.wallet
        /\ routines.wallet = routines.simple
        /\ routines.simple = routines.live

====
